---- MODULE Spec2Model ----
(***************************************************************************)
(* Verification model of wanderer-sde: the conversion run of               *)
(* cmd/sdeconvert (parse, Transform, Validate, write) and the transformer  *)
(* package it drives.                                                      *)
(*                                                                         *)
(* Conventions                                                             *)
(*  - a Go slice is a sequence, a Go map a function with a finite domain;  *)
(*  - a *int64 is a heap address, 0 being nil; heap[a] is the cell;        *)
(*  - sort.Slice is not stable: its result is any permutation of the       *)
(*    slice that is ordered by the less function;                          *)
(*  - ranging over a Go map visits the keys in an order the runtime        *)
(*    picks: an action takes the order as a nondeterministic input;        *)
(*  - float64 fields hold small integers (coordinates) or ten-thousandths  *)
(*    (Security).                                                          *)
(***************************************************************************)
EXTENDS Integers, Sequences, FiniteSets, TLC

\* ------------------------------------------------------------------------
\* Bounds of the model
\* ------------------------------------------------------------------------
\* longest input slice
MaxLen == 2
\* identifiers (and map keys) are taken from 1..MaxID
MaxID == 2
IDs == 1..MaxID

\* ------------------------------------------------------------------------
\* Program constants
\* ------------------------------------------------------------------------
ShipCategoryID == 6
DroneCategoryID == 7

minSolarSystems == 8000
minRegions == 100
minConstellations == 1000
minShipTypes == 500
minShipGroups == 30
minSystemJumps == 13000
minWormholeClasses == 750
minNPCStations == 40

NIL == 0

\* ------------------------------------------------------------------------
\* Generic helpers
\* ------------------------------------------------------------------------
\* all enumerations of the finite set S without repetition
Orders(S) ==
  {o \in [1..Cardinality(S) -> S] : \A i, j \in 1..Cardinality(S) : i # j => o[i] # o[j]}

\* all rearrangements of the sequence s
SeqPerms(s) ==
  {[i \in 1..Len(s) |-> s[p[i]]] : p \in Orders(1..Len(s))}

\* all sequences over S of length 0..n
SeqsUpTo(S, n) == UNION {[1..k -> S] : k \in 0..n}

\* the elements of a sequence
Range(s) == {s[i] : i \in 1..Len(s)}

\* the pairs of elements of s a less function is asked about
Pairs(s) == Range(s) \X Range(s)

\* sort.Slice(s, less), less given as a function on Pairs(s): every
\* permutation of s in which no element is less than its predecessor
SortSlice(s, less) ==
  {t \in SeqPerms(s) : \A i \in 1..(Len(t) - 1) : ~less[<<t[i + 1], t[i]>>]}

\* the index of the last element whose key is k in the sequence of keys
\* (0: none): what a Go map holds after
\* `for _, e := range s { m[key(e)] = e }`
LastIndex(keys, k) ==
  LET hits == {i \in 1..Len(keys) : keys[i] = k}
  IN IF hits = {} THEN 0 ELSE CHOOSE i \in hits : \A j \in hits : j <= i

\* ------------------------------------------------------------------------
\* models: the records of internal/models
\* ------------------------------------------------------------------------
\* models.SolarSystem (the fields the transformer reads or writes)
SolarSystem(id, region, constellation, x, y, z, security, faction) ==
  [SolarSystemID |-> id, RegionID |-> region, ConstellationID |-> constellation,
   X |-> x, Y |-> y, Z |-> z, Security |-> security, FactionID |-> faction]

\* models.Region
Region(id, name, faction) ==
  [RegionID |-> id, RegionName |-> name,
   XMin |-> 0, XMax |-> 0, YMin |-> 0, YMax |-> 0, ZMin |-> 0, ZMax |-> 0,
   FactionID |-> faction]

\* models.Constellation
Constellation(id, region, name) ==
  [ConstellationID |-> id, RegionID |-> region, ConstellationName |-> name,
   XMin |-> 0, XMax |-> 0, YMin |-> 0, YMax |-> 0, ZMin |-> 0, ZMax |-> 0]

\* models.WormholeClassLocation
WormholeClassLocation(location, class) ==
  [LocationID |-> location, WormholeClassID |-> class]

\* models.SystemJump
SystemJump(fromRegion, fromConstellation, from, to, toConstellation, toRegion) ==
  [FromRegionID |-> fromRegion, FromConstellationID |-> fromConstellation,
   FromSolarSystemID |-> from, ToSolarSystemID |-> to,
   ToConstellationID |-> toConstellation, ToRegionID |-> toRegion]

\* models.SDEType, models.SDEGroup: values of the Types and Groups maps.
\* Name is the map[string]string of translations.
SDEType(group, name, published) ==
  [GroupID |-> group, Name |-> name, Published |-> published]

SDEGroup(category, name, published) ==
  [CategoryID |-> category, Name |-> name, Published |-> published]

\* models.SDENPCStation, models.SDENPCCorporation
SDENPCStation(system, owner, type) ==
  [SolarSystemID |-> system, OwnerID |-> owner, TypeID |-> type]

SDENPCCorporation(name) == [Name |-> name]

\* models.InvType, models.InvGroup, models.NPCStation
InvType(id, group, name, published) ==
  [TypeID |-> id, GroupID |-> group, TypeName |-> name, Published |-> published]

InvGroup(id, category, name) ==
  [GroupID |-> id, CategoryID |-> category, GroupName |-> name]

NPCStation(id, system, owner, ownerName, type) ==
  [StationID |-> id, SolarSystemID |-> system, OwnerID |-> owner,
   OwnerName |-> ownerName, TypeID |-> type]

\* a map[string]string with the single entry lang -> text, and the empty one
NameMap(lang, text) == [l \in {lang} |-> text]
NoNames == [l \in {} |-> ""]

\* ------------------------------------------------------------------------
\* transformer: security status (security.go)
\*
\* A security status is a float64.  The model holds the decimal fractions
\* with up to four decimals as integers counting ten-thousandths (0.9459
\* is 9459, 0.05 is 500, 0.1 is 1000), and each float64 operation as the
\* operation on these integers that gives the float64 result.
\* ------------------------------------------------------------------------
MaxSecurity == 12000

Abs(n) == IF n < 0 THEN -n ELSE n

\* math.Trunc, math.Ceil, math.Floor, math.Round of n/d, for d > 0
Trunc(n, d) == IF n < 0 THEN -((-n) \div d) ELSE n \div d
Ceil(n, d) == -((-n) \div d)
Floor(n, d) == n \div d
Round(n, d) == IF n < 0 THEN -((2 * (-n) + d) \div (2 * d)) ELSE (2 * n + d) \div (2 * d)

\* RoundSecurity: math.Round(security*10) / 10, math.Round rounding halves
\* away from zero.  On the grid the double security*10 is on the same side
\* of every half as the exact product (1.15*10 = 11.5, 0.0499*10 = 0.499).
RoundSecurity(security) == Round(security, 1000) * 1000

\* value*100 in float64 is the double nearest to the product.  For the
\* values v below with v/100 a whole number (up to 2.0) and for their
\* negatives, that double lies just under the whole number in magnitude:
\* 0.29*100 = 28.999999999999996, 1.15*100 = 114.99999999999999.  For every
\* other value of the grid math.Trunc of the double is the whole part of
\* the exact product.
ProductBelow == {2900, 5700, 5800, 11300, 11400, 11500, 11600}

\* math.Trunc(value*100) / 100
TruncateToTwoDigits(value) ==
  LET whole == Trunc(value, 100)
  IN 100 * (IF Abs(value) \in ProductBelow
            THEN (IF value < 0 THEN whole + 1 ELSE whole - 1)
            ELSE whole)

\* Rule 2 of GetTrueSecurity, step by step.  truncated*10 and (truncated -
\* truncatedOneDecimal)*100 are float64 products too, but their rounding
\* leaves the results of Trunc, Round, Ceil and Floor as computed here.
StandardRounding(security) ==
  LET truncated == TruncateToTwoDigits(security)
      truncatedOneDecimal == 1000 * Trunc(truncated, 1000)
      diff == 100 * Abs(Round(truncated - truncatedOneDecimal, 100))
  IN IF diff < 500
     THEN truncatedOneDecimal
     ELSE IF security >= 0
          THEN 1000 * Ceil(truncated, 1000)
          ELSE 1000 * Floor(truncated, 1000)

\* GetTrueSecurity with Rule 1 left out
GetTrueSecurityWithoutRuleOne(security) == StandardRounding(security)

\* GetTrueSecurity with Rule 1 returning the threshold 0.05 itself
GetTrueSecurityTinyToThreshold(security) ==
  IF security > 0 /\ security < 500 THEN 500 ELSE StandardRounding(security)

\* Rule 1, math.Ceil(security*10) / 10, then Rule 2
GetTrueSecurity(security) ==
  IF security > 0 /\ security < 500
  THEN 1000 * Ceil(security, 1000)
  ELSE StandardRounding(security)

\* ------------------------------------------------------------------------
\* transformer: sorting and filtering
\* ------------------------------------------------------------------------
LessSolarSystem(a, b) == a.SolarSystemID < b.SolarSystemID
LessRegion(a, b) == a.RegionID < b.RegionID
LessConstellation(a, b) == a.ConstellationID < b.ConstellationID
LessWormholeClass(a, b) == a.LocationID < b.LocationID
LessInvType(a, b) == a.TypeID < b.TypeID
LessInvGroup(a, b) == a.GroupID < b.GroupID
LessNPCStation(a, b) == a.StationID < b.StationID
LessSystemJump(a, b) ==
  IF a.FromSolarSystemID # b.FromSolarSystemID
  THEN a.FromSolarSystemID < b.FromSolarSystemID
  ELSE a.ToSolarSystemID < b.ToSolarSystemID

\* transformSolarSystems with the sort left out
transformSolarSystemsUnsorted(systems) == {systems}

\* transformSolarSystems storing the display value in place of the raw one
transformSolarSystemsTrueSecurity(systems) ==
  {[i \in 1..Len(t) |-> [t[i] EXCEPT !.Security = GetTrueSecurity(@)]] :
     t \in SortSlice(systems, [p \in Pairs(systems) |-> LessSolarSystem(p[1], p[2])])}

\* each returns the set of results the copy-and-sort can give
transformSolarSystems(systems) ==
  SortSlice(systems, [p \in Pairs(systems) |-> LessSolarSystem(p[1], p[2])])
sortRegions(regions) ==
  SortSlice(regions, [p \in Pairs(regions) |-> LessRegion(p[1], p[2])])
sortConstellations(constellations) ==
  SortSlice(constellations,
            [p \in Pairs(constellations) |-> LessConstellation(p[1], p[2])])
sortWormholeClasses(classes) ==
  SortSlice(classes, [p \in Pairs(classes) |-> LessWormholeClass(p[1], p[2])])

\* getLocalizedName falling back on another language of the map
getLocalizedNameAnyLanguage(names, lang) ==
  IF lang \in DOMAIN names THEN names[lang]
  ELSE IF DOMAIN names # {} THEN names[CHOOSE l \in DOMAIN names : TRUE]
  ELSE ""

getLocalizedName(names, lang) ==
  IF lang \in DOMAIN names THEN names[lang] ELSE ""

\* shipGroupIDs without the test of the category
AllGroupIDs(groups) == DOMAIN groups

\* the shipGroupIDs set of transformShipTypes
ShipGroupIDs(groups) ==
  {g \in DOMAIN groups : groups[g].CategoryID = ShipCategoryID}

\* transformShipTypes with the sort left out
transformShipTypesUnsorted(types, groups, order) ==
  LET kept == SelectSeq(order, LAMBDA id : types[id].GroupID \in ShipGroupIDs(groups))
  IN {[i \in 1..Len(kept) |->
         InvType(kept[i], types[kept[i]].GroupID,
                 getLocalizedName(types[kept[i]].Name, "en"),
                 types[kept[i]].Published)]}

\* transformShipTypes keeping the published types only
transformShipTypesPublishedOnly(types, groups, order) ==
  LET kept == SelectSeq(order, LAMBDA id : /\ types[id].GroupID \in ShipGroupIDs(groups)
                                           /\ types[id].Published)
      result == [i \in 1..Len(kept) |->
                   InvType(kept[i], types[kept[i]].GroupID,
                           getLocalizedName(types[kept[i]].Name, "en"),
                           types[kept[i]].Published)]
  IN SortSlice(result, [p \in Pairs(result) |-> LessInvType(p[1], p[2])])

\* transformShipTypes, ranging over the Types map in the order `order`
transformShipTypes(types, groups, order) ==
  LET kept == SelectSeq(order, LAMBDA id : types[id].GroupID \in ShipGroupIDs(groups))
      result == [i \in 1..Len(kept) |->
                   InvType(kept[i], types[kept[i]].GroupID,
                           getLocalizedName(types[kept[i]].Name, "en"),
                           types[kept[i]].Published)]
  IN SortSlice(result, [p \in Pairs(result) |-> LessInvType(p[1], p[2])])

\* transformShipGroups without the test of the category
transformAllGroups(groups, order) ==
  LET result == [i \in 1..Len(order) |->
                   InvGroup(order[i], groups[order[i]].CategoryID,
                            getLocalizedName(groups[order[i]].Name, "en"))]
  IN SortSlice(result, [p \in Pairs(result) |-> LessInvGroup(p[1], p[2])])

\* transformShipGroups skipping the groups without an "en" name
transformShipGroupsNamedOnly(groups, order) ==
  LET kept == SelectSeq(order, LAMBDA id : /\ groups[id].CategoryID = ShipCategoryID
                                           /\ "en" \in DOMAIN groups[id].Name)
      result == [i \in 1..Len(kept) |->
                   InvGroup(kept[i], groups[kept[i]].CategoryID,
                            getLocalizedName(groups[kept[i]].Name, "en"))]
  IN SortSlice(result, [p \in Pairs(result) |-> LessInvGroup(p[1], p[2])])

\* transformShipGroups, ranging over the Groups map in the order `order`
transformShipGroups(groups, order) ==
  LET kept == SelectSeq(order, LAMBDA id : groups[id].CategoryID = ShipCategoryID)
      result == [i \in 1..Len(kept) |->
                   InvGroup(kept[i], groups[kept[i]].CategoryID,
                            getLocalizedName(groups[kept[i]].Name, "en"))]
  IN SortSlice(result, [p \in Pairs(result) |-> LessInvGroup(p[1], p[2])])

\* transformNPCStations skipping the stations whose owner is not in corps
transformNPCStationsResolvedOnly(stations, corps, order) ==
  LET kept == SelectSeq(order, LAMBDA id : stations[id].OwnerID \in DOMAIN corps)
      result == [i \in 1..Len(kept) |->
                   LET st == stations[kept[i]]
                   IN NPCStation(kept[i], st.SolarSystemID, st.OwnerID,
                                 getLocalizedName(corps[st.OwnerID].Name, "en"),
                                 st.TypeID)]
  IN SortSlice(result, [p \in Pairs(result) |-> LessNPCStation(p[1], p[2])])

\* transformNPCStations, ranging over the stations map in the order `order`
transformNPCStations(stations, corps, order) ==
  LET result == [i \in 1..Len(order) |->
                   LET st == stations[order[i]]
                       ownerName == IF st.OwnerID \in DOMAIN corps
                                    THEN getLocalizedName(corps[st.OwnerID].Name, "en")
                                    ELSE ""
                   IN NPCStation(order[i], st.SolarSystemID, st.OwnerID, ownerName, st.TypeID)]
  IN SortSlice(result, [p \in Pairs(result) |-> LessNPCStation(p[1], p[2])])

\* SDEMapStargate: the system of the gate and the system of its destination
SDEMapStargate(system, destination) ==
  [SolarSystemID |-> system, Destination |-> [SolarSystemID |-> destination]]

\* ParseStargates forgetting the direction of a gate
ParseStargatesUndirected(stargates) ==
  LET valid == {id \in DOMAIN stargates :
                  /\ stargates[id].SolarSystemID # 0
                  /\ stargates[id].Destination.SolarSystemID # 0}
      low(id) == IF stargates[id].SolarSystemID < stargates[id].Destination.SolarSystemID
                 THEN stargates[id].SolarSystemID
                 ELSE stargates[id].Destination.SolarSystemID
      high(id) == IF stargates[id].SolarSystemID < stargates[id].Destination.SolarSystemID
                  THEN stargates[id].Destination.SolarSystemID
                  ELSE stargates[id].SolarSystemID
      jumpSet == {<<low(id), high(id)>> : id \in valid}
  IN UNION {LET jumps == [i \in 1..Len(order) |->
                            SystemJump(0, 0, order[i][1], order[i][2], 0, 0)]
            IN SortSlice(jumps, [p \in Pairs(jumps) |-> LessSystemJump(p[1], p[2])]) :
            order \in Orders(jumpSet)}

\* ParseStargates on the map read from mapStargates.yaml: the jumpSet of
\* the gates with two non-zero systems, ranged over in any order, sorted
ParseStargates(stargates) ==
  LET valid == {id \in DOMAIN stargates :
                  ~(\/ stargates[id].SolarSystemID = 0
                    \/ stargates[id].Destination.SolarSystemID = 0)}
      jumpSet == {<<stargates[id].SolarSystemID,
                    stargates[id].Destination.SolarSystemID>> : id \in valid}
  IN UNION {LET jumps == [i \in 1..Len(order) |->
                            SystemJump(0, 0, order[i][1], order[i][2], 0, 0)]
            IN SortSlice(jumps, [p \in Pairs(jumps) |-> LessSystemJump(p[1], p[2])]) :
            order \in Orders(jumpSet)}

\* the keys of the systemLookup map, in the order they are stored
SolarSystemIDs(systems) == [i \in 1..Len(systems) |-> systems[i].SolarSystemID]

\* the enrichment with the two sides exchanged
EnrichJumpSwapped(jump, systems) ==
  LET fromIdx == LastIndex(SolarSystemIDs(systems), jump.FromSolarSystemID)
      toIdx == LastIndex(SolarSystemIDs(systems), jump.ToSolarSystemID)
  IN SystemJump(IF toIdx # 0 THEN systems[toIdx].RegionID ELSE 0,
                IF toIdx # 0 THEN systems[toIdx].ConstellationID ELSE 0,
                jump.FromSolarSystemID, jump.ToSolarSystemID,
                IF fromIdx # 0 THEN systems[fromIdx].ConstellationID ELSE 0,
                IF fromIdx # 0 THEN systems[fromIdx].RegionID ELSE 0)

\* one enriched jump of transformSystemJumps; systemLookup[id] is the last
\* system of the slice carrying that ID
EnrichJump(jump, systems) ==
  LET fromIdx == LastIndex(SolarSystemIDs(systems), jump.FromSolarSystemID)
      toIdx == LastIndex(SolarSystemIDs(systems), jump.ToSolarSystemID)
  IN SystemJump(IF fromIdx # 0 THEN systems[fromIdx].RegionID ELSE 0,
                IF fromIdx # 0 THEN systems[fromIdx].ConstellationID ELSE 0,
                jump.FromSolarSystemID, jump.ToSolarSystemID,
                IF toIdx # 0 THEN systems[toIdx].ConstellationID ELSE 0,
                IF toIdx # 0 THEN systems[toIdx].RegionID ELSE 0)

\* transformSystemJumps keeping one jump per (From, To) pair
transformSystemJumpsDeduplicated(jumps, systems) ==
  LET first == SelectSeq([i \in 1..Len(jumps) |-> i],
                         LAMBDA i : \A k \in 1..(i - 1) :
                           \/ jumps[k].FromSolarSystemID # jumps[i].FromSolarSystemID
                           \/ jumps[k].ToSolarSystemID # jumps[i].ToSolarSystemID)
      result == [i \in 1..Len(first) |-> EnrichJump(jumps[first[i]], systems)]
  IN SortSlice(result, [p \in Pairs(result) |-> LessSystemJump(p[1], p[2])])

transformSystemJumps(jumps, systems) ==
  LET result == [i \in 1..Len(jumps) |-> EnrichJump(jumps[i], systems)]
  IN SortSlice(result, [p \in Pairs(result) |-> LessSystemJump(p[1], p[2])])

\* ------------------------------------------------------------------------
\* transformer: bounds and faction inheritance
\* ------------------------------------------------------------------------
\* the loop of calculateBounds over systems[1:]
RECURSIVE BoundsLoop(_, _)
BoundsLoop(b, rest) ==
  IF rest = <<>> THEN b
  ELSE LET sys == Head(rest)
       IN BoundsLoop([minX |-> IF sys.X < b.minX THEN sys.X ELSE b.minX,
                      maxX |-> IF sys.X > b.maxX THEN sys.X ELSE b.maxX,
                      minY |-> IF sys.Y < b.minY THEN sys.Y ELSE b.minY,
                      maxY |-> IF sys.Y > b.maxY THEN sys.Y ELSE b.maxY,
                      minZ |-> IF sys.Z < b.minZ THEN sys.Z ELSE b.minZ,
                      maxZ |-> IF sys.Z > b.maxZ THEN sys.Z ELSE b.maxZ],
                     Tail(rest))

\* calculateBounds starting from the zero bounds instead of systems[0]
calculateBoundsFromZero(systems) ==
  BoundsLoop([minX |-> 0, maxX |-> 0, minY |-> 0, maxY |-> 0, minZ |-> 0, maxZ |-> 0],
             systems)

calculateBounds(systems) ==
  IF Len(systems) = 0
  THEN [minX |-> 0, maxX |-> 0, minY |-> 0, maxY |-> 0, minZ |-> 0, maxZ |-> 0]
  ELSE BoundsLoop([minX |-> systems[1].X, maxX |-> systems[1].X,
                   minY |-> systems[1].Y, maxY |-> systems[1].Y,
                   minZ |-> systems[1].Z, maxZ |-> systems[1].Z],
                  Tail(systems))

\* the six assignments both callers of calculateBounds make
WithBounds(parent, b) ==
  [parent EXCEPT !.XMin = b.minX, !.XMax = b.maxX,
                 !.YMin = b.minY, !.YMax = b.maxY,
                 !.ZMin = b.minZ, !.ZMax = b.maxZ]

\* CalculateRegionBounds without the `continue` for a region without systems
CalculateRegionBoundsAlways(regions, systems) ==
  [i \in 1..Len(regions) |->
     LET sysList == SelectSeq(systems, LAMBDA s : s.RegionID = regions[i].RegionID)
     IN WithBounds(regions[i], calculateBounds(sysList))]

\* CalculateRegionBounds grouping the systems by ConstellationID
CalculateRegionBoundsByConstellation(regions, systems) ==
  [i \in 1..Len(regions) |->
     LET sysList == SelectSeq(systems, LAMBDA s : s.ConstellationID = regions[i].RegionID)
     IN IF Len(sysList) = 0 THEN regions[i]
        ELSE WithBounds(regions[i], calculateBounds(sysList))]

CalculateRegionBounds(regions, systems) ==
  [i \in 1..Len(regions) |->
     LET sysList == SelectSeq(systems, LAMBDA s : s.RegionID = regions[i].RegionID)
     IN IF Len(sysList) = 0 THEN regions[i]
        ELSE WithBounds(regions[i], calculateBounds(sysList))]

CalculateConstellationBounds(constellations, systems) ==
  [i \in 1..Len(constellations) |->
     LET sysList == SelectSeq(systems,
                              LAMBDA s : s.ConstellationID = constellations[i].ConstellationID)
     IN IF Len(sysList) = 0 THEN constellations[i]
        ELSE WithBounds(constellations[i], calculateBounds(sysList))]

\* regionFactions[id] of InheritFactionIDs: the FactionID pointer of the
\* last region with that ID, NIL when there is none
RegionFaction(regions, id) ==
  LET idx == LastIndex([i \in 1..Len(regions) |-> regions[i].RegionID], id)
  IN IF idx = 0 THEN NIL ELSE regions[idx].FactionID

\* InheritFactionIDs storing the region's pointer itself in the system
InheritFactionIDsAliased(systems, regions, h) ==
  [systems |-> [i \in 1..Len(systems) |->
                  IF /\ systems[i].FactionID = NIL
                     /\ RegionFaction(regions, systems[i].RegionID) # NIL
                  THEN [systems[i] EXCEPT
                          !.FactionID = RegionFaction(regions, systems[i].RegionID)]
                  ELSE systems[i]],
   heap |-> h]

\* InheritFactionIDs without the test that the system has no FactionID
InheritFactionIDsAlways(systems, regions, h) ==
  LET inherits == {i \in 1..Len(systems) :
                     RegionFaction(regions, systems[i].RegionID) # NIL}
      rank(i) == Cardinality({j \in inherits : j <= i})
      nth(k) == CHOOSE i \in inherits : rank(i) = k
  IN [systems |-> [i \in 1..Len(systems) |->
                     IF i \in inherits
                     THEN [systems[i] EXCEPT !.FactionID = Len(h) + rank(i)]
                     ELSE systems[i]],
      heap |-> h \o [k \in 1..Cardinality(inherits) |->
                       h[RegionFaction(regions, systems[nth(k)].RegionID)]]]

\* InheritFactionIDs: every inheriting system gets a fresh cell (`val`)
\* holding the value of its region's cell. Gives the systems and the heap.
InheritFactionIDs(systems, regions, h) ==
  LET inherits == {i \in 1..Len(systems) :
                     /\ systems[i].FactionID = NIL
                     /\ RegionFaction(regions, systems[i].RegionID) # NIL}
      rank(i) == Cardinality({j \in inherits : j <= i})
      nth(k) == CHOOSE i \in inherits : rank(i) = k
  IN [systems |-> [i \in 1..Len(systems) |->
                     IF i \in inherits
                     THEN [systems[i] EXCEPT !.FactionID = Len(h) + rank(i)]
                     ELSE systems[i]],
      heap |-> h \o [k \in 1..Cardinality(inherits) |->
                       h[RegionFaction(regions, systems[nth(k)].RegionID)]]]

\* ------------------------------------------------------------------------
\* transformer: Validate
\* ------------------------------------------------------------------------
\* the comparison with the minimum made with <=
AtOrBelowMinimum(what, count, minimum) ==
  IF count <= minimum
  THEN <<what \o " count (" \o ToString(count) \o ") is below expected minimum ("
         \o ToString(minimum) \o ")">>
  ELSE <<>>

BelowMinimum(what, count, minimum) ==
  IF count < minimum
  THEN <<what \o " count (" \o ToString(count) \o ") is below expected minimum ("
         \o ToString(minimum) \o ")">>
  ELSE <<>>

\* an Error for a required collection below the smallest minimum
FewRequired(count, message) == IF count < minRegions THEN <<message>> ELSE <<>>

EmptyRequired(count, message) == IF count = 0 THEN <<message>> ELSE <<>>

Validate(data) ==
  LET result == [SolarSystems |-> Len(data.Universe.SolarSystems),
                 Regions |-> Len(data.Universe.Regions),
                 Constellations |-> Len(data.Universe.Constellations),
                 InvTypes |-> Len(data.InvTypes),
                 InvGroups |-> Len(data.InvGroups),
                 SystemJumps |-> Len(data.SystemJumps),
                 WormholeClasses |-> Len(data.WormholeClasses),
                 NPCStations |-> Len(data.NPCStations)]
  IN [SolarSystems |-> result.SolarSystems,
      Regions |-> result.Regions,
      Constellations |-> result.Constellations,
      InvTypes |-> result.InvTypes,
      InvGroups |-> result.InvGroups,
      SystemJumps |-> result.SystemJumps,
      WormholeClasses |-> result.WormholeClasses,
      NPCStations |-> result.NPCStations,
      Warnings |-> BelowMinimum("Solar system", result.SolarSystems, minSolarSystems)
                \o BelowMinimum("Region", result.Regions, minRegions)
                \o BelowMinimum("Constellation", result.Constellations, minConstellations)
                \o BelowMinimum("Ship type", result.InvTypes, minShipTypes)
                \o BelowMinimum("Ship group", result.InvGroups, minShipGroups)
                \o BelowMinimum("System jump", result.SystemJumps, minSystemJumps)
                \o BelowMinimum("Wormhole class", result.WormholeClasses, minWormholeClasses)
                \o BelowMinimum("NPC station", result.NPCStations, minNPCStations),
      Errors |-> EmptyRequired(result.SolarSystems, "No solar systems found")
              \o EmptyRequired(result.Regions, "No regions found")
              \o EmptyRequired(result.Constellations, "No constellations found")]

\* IsValid asking for no Warnings either
IsValidWithoutWarnings(v) == Len(v.Errors) = 0 /\ Len(v.Warnings) = 0

\* ValidationResult.IsValid
IsValid(v) == Len(v.Errors) = 0

\* ------------------------------------------------------------------------
\* downloader: version tracking (version.go)
\*
\* A Go string is a sequence of characters; "" is <<>>.
\* ------------------------------------------------------------------------
\* the characters of a build number, and the white space strings.TrimSpace
\* removes
Digits == {"1", "2"}
Spaces == {" ", "\n"}

\* strings.TrimSpace
TrimSpace(s) ==
  LET kept == {i \in 1..Len(s) : s[i] \notin Spaces}
  IN IF kept = {} THEN <<>>
     ELSE SubSeq(s, CHOOSE i \in kept : \A j \in kept : i <= j,
                    CHOOSE i \in kept : \A j \in kept : j <= i)

\* what StoreVersion writes: []byte(version + "\n")
VersionFileContent(version) == version \o <<"\n">>

\* GetStoredVersion on the file: "" without one, its trimmed content
\* otherwise
GetStoredVersion(file) == IF file = <<>> THEN <<>> ELSE TrimSpace(file[1])

\* the comparison of NeedsUpdate made the other way round
StoredDiffersInverted(stored, latest) == stored = latest

\* needsUpdate := stored != latest.BuildNumber
StoredDiffers(stored, latest) == stored # latest

\* NeedsUpdate once GetLatestVersion has returned latest and
\* GetStoredVersion has read the file: (needsUpdate, latest, nil)
NeedsUpdateResult(file, latest) ==
  LET stored == GetStoredVersion(file)
  IN [op |-> "NeedsUpdate",
      needsUpdate |-> IF stored = <<>> THEN TRUE ELSE StoredDiffers(stored, latest),
      latest |-> <<latest>>,
      err |-> ""]

\* NeedsUpdate when one of the two has failed: (false, nil, err)
NeedsUpdateError(message) ==
  [op |-> "NeedsUpdate", needsUpdate |-> FALSE, latest |-> <<>>, err |-> message]

\* ------------------------------------------------------------------------
\* State of one conversion run (cmd/sdeconvert runConversion)
\* ------------------------------------------------------------------------
VARIABLES
  pc,                \* position of runConversion
  cfg,               \* the flags: DownloadSDE, PassthroughDir
  versionInfo,       \* <<>> for nil, <<build>> otherwise
  parseResult,       \* <<>> for nil, <<parser.ParseResult>> otherwise
  heap,              \* the int64 cells FactionID pointers refer to
  convertedData,     \* <<>> for nil, <<models.ConvertedData>> otherwise
  validationResult,  \* <<>> for nil, <<models.ValidationResult>> otherwise
  calls,             \* the output operations performed so far, in order
  err,               \* the error runConversion returned, "" for nil
  trueSecurity,      \* a raw security value and the results of the successive
                     \* calls of GetTrueSecurity on it, <<>> when there is none
  roundedSecurity,   \* <<>> or <<RoundSecurity of the raw value>>
  rawStargates,      \* <<>> or <<the map read from mapStargates.yaml>>
  versionFile,       \* <<>> when the output directory has no .last-sde-version,
                     \* <<its content>> otherwise, a sequence of characters
  versionCalls,      \* the calls of StoreVersion and NeedsUpdate made so far,
                     \* each with its arguments and results
  cancelledAt,       \* <<>> while ctx is live, <<the position of runConversion
                     \* when the signal handler called cancel()>> afterwards
  needsUpdate,       \* the local needsUpdate of step 1
  sdeDir,            \* <<>> when sdePath does not exist, <<what it holds>>
                     \* otherwise: "old", "new" or "incomplete"
  downloadedPath     \* <<>> or <<what the temporary directory holds>>

vars == <<pc, cfg, versionInfo, parseResult, heap, convertedData,
          validationResult, calls, err, trueSecurity, roundedSecurity, rawStargates,
          versionFile, versionCalls, cancelledAt, needsUpdate, sdeDir,
          downloadedPath>>

\* the state of step 1 and of the signal handler
downloadVars == <<cancelledAt, needsUpdate, sdeDir, downloadedPath>>

\* ------------------------------------------------------------------------
\* Inputs: what ParseAll can hand to Transform
\* ------------------------------------------------------------------------
EmptyMap == <<>>

BaseParseResult ==
  [Regions |-> <<Region(1, "1", NIL)>>,
   Constellations |-> <<Constellation(1, 1, "1")>>,
   SolarSystems |-> <<SolarSystem(1, 1, 1, 0, 0, 0, 0, NIL)>>,
   Types |-> EmptyMap,
   Groups |-> EmptyMap,
   WormholeClasses |-> <<>>,
   SystemJumps |-> <<>>,
   NPCStations |-> EmptyMap,
   NPCCorporations |-> EmptyMap]

EmptyParseResult ==
  [BaseParseResult EXCEPT !.Regions = <<>>, !.Constellations = <<>>,
                          !.SolarSystems = <<>>]

\* slices with arbitrary keys, in any order, repeated keys included; the
\* name (class) of an element is its input position
RegionInput(ids) ==
  [BaseParseResult EXCEPT
     !.Regions = [i \in 1..Len(ids) |-> Region(ids[i], ToString(i), NIL)]]

ConstellationInput(ids) ==
  [BaseParseResult EXCEPT
     !.Constellations = [i \in 1..Len(ids) |-> Constellation(ids[i], 1, ToString(i))]]

WormholeClassInput(ids) ==
  [BaseParseResult EXCEPT
     !.WormholeClasses = [i \in 1..Len(ids) |-> WormholeClassLocation(ids[i], i)]]

\* systems and jumps together: the system at input position i with ID id
\* lies in region 10*i + id and constellation 100*i + id, so every system
\* of a table is told apart by either field
SystemTable(ids) ==
  [i \in 1..Len(ids) |->
     SolarSystem(ids[i], 10 * i + ids[i], 100 * i + ids[i], 0, 0, 0, 0, NIL)]

JumpInput(ids, pairs) ==
  [BaseParseResult EXCEPT
     !.SolarSystems = SystemTable(ids),
     !.SystemJumps = [i \in 1..Len(pairs) |->
                        SystemJump(0, 0, pairs[i][1], pairs[i][2], 0, 0)]]

\* mapStargates.yaml: gates keyed by stargate ID, each between two systems
\* of 0..MaxID, 0 being the value of a missing field
StargateMaps ==
  UNION {[D -> {SDEMapStargate(f, t) : f \in 0..MaxID, t \in 0..MaxID}] :
         D \in SUBSET IDs}

\* the Types and Groups maps: a type refers to a group of 1..MaxID+1 (the
\* last one is never in the group table), a group is a ship or a drone group
TypeMaps ==
  UNION {[D -> {SDEType(g, NameMap("en", "type"), TRUE) : g \in 1..(MaxID + 1)}] :
         D \in SUBSET IDs}

GroupMaps ==
  UNION {[D -> {SDEGroup(c, NameMap("en", "group"), TRUE) :
                c \in {ShipCategoryID, DroneCategoryID}}] :
         D \in SUBSET IDs}

\* ship groups and types of group 1 whose name maps have an "en" entry,
\* only a "de" entry, or (the types) no entry at all
NamedGroupMaps ==
  UNION {[D -> {SDEGroup(ShipCategoryID, n, TRUE) :
                n \in {NameMap("en", "group"), NameMap("de", "Gruppe")}}] :
         D \in SUBSET IDs}

NamedTypeMaps ==
  UNION {[D -> {SDEType(1, n, TRUE) :
                n \in {NameMap("en", "type"), NameMap("de", "Typ"), NoNames}}] :
         D \in SUBSET IDs}

\* ship groups and types of group 1, published or not
PublishedGroupMaps ==
  UNION {[D -> {SDEGroup(ShipCategoryID, NameMap("en", "group"), p) : p \in BOOLEAN}] :
         D \in SUBSET IDs}

PublishedTypeMaps ==
  UNION {[D -> {SDEType(1, NameMap("en", "type"), p) : p \in BOOLEAN}] :
         D \in SUBSET IDs}

ItemInput(types, groups) ==
  [BaseParseResult EXCEPT !.Types = types, !.Groups = groups]

\* the NPCStations and NPCCorporations maps
StationMaps ==
  UNION {[D -> {SDENPCStation(1, o, 7) : o \in IDs}] : D \in SUBSET IDs}

CorporationMaps ==
  UNION {[D -> {SDENPCCorporation(n) :
                n \in {NameMap("en", "corp"), NameMap("de", "Firma")}}] :
         D \in SUBSET IDs}

StationInput(stations, corps) ==
  [BaseParseResult EXCEPT !.NPCStations = stations, !.NPCCorporations = corps]

\* a ParseResult built by hand, as the unit tests of the transformer do:
\* regions and constellations that may carry bounds already, systems with
\* coordinates. The constellation of a region r is Mirror(r), so the two
\* bounds computations group the systems by different values.
Mirror(id) == MaxID + 1 - id

\* two positions that differ on every axis, with a different order on each
Points == << <<1, 20, -300>>, <<-2, 10, 400>> >>

\* the same value in all six bounds
Flat(e) == [minX |-> e, maxX |-> e, minY |-> e, maxY |-> e, minZ |-> e, maxZ |-> e]

\* parents: the region IDs; earlier: the bounds they already carry;
\* tags[i] = <<RegionID, index into Points>> of system i
GeometryInput(parents, earlier, tags) ==
  [BaseParseResult EXCEPT
     !.Regions = [i \in 1..Len(parents) |->
                    WithBounds(Region(parents[i], ToString(i), NIL), Flat(earlier))],
     !.Constellations = [i \in 1..Len(parents) |->
                           WithBounds(Constellation(Mirror(parents[i]), parents[i],
                                                    ToString(i)),
                                      Flat(earlier))],
     !.SolarSystems = [i \in 1..Len(tags) |->
                         SolarSystem(i, tags[i][1], Mirror(tags[i][1]),
                                     Points[tags[i][2]][1], Points[tags[i][2]][2],
                                     Points[tags[i][2]][3], 0, NIL)]]

\* the regions 1..count, every constellation of IDs (each in region 1),
\* and systems that name their region and their constellation
\* independently: tags[i] = <<RegionID, ConstellationID, index into Points>>
\* of system i
NestingInput(count, tags) ==
  [BaseParseResult EXCEPT
     !.Regions = [i \in 1..count |-> Region(i, ToString(i), NIL)],
     !.Constellations = [i \in 1..MaxID |-> Constellation(i, 1, ToString(i))],
     !.SolarSystems = [i \in 1..Len(tags) |->
                         SolarSystem(i, tags[i][1], tags[i][2],
                                     Points[tags[i][3]][1], Points[tags[i][3]][2],
                                     Points[tags[i][3]][3], 0, NIL)]]

\* raw security values: one under 0.05, one the display rounds down, one
\* it rounds away from zero, and 0.0
RawSecurities == {470, 9459, -4500, 0}

\* systems with the raw values raws, in descending order of SolarSystemID
SecurityInput(raws) ==
  [BaseParseResult EXCEPT
     !.SolarSystems = [i \in 1..Len(raws) |->
                         SolarSystem(Len(raws) + 1 - i, 1, 1, 0, 0, 0, raws[i], NIL)]]

\* regions and systems with and without a FactionID, each FactionID in a
\* cell of its own as after Int64PtrNonZero. specs[i] = <<RegionID, has a
\* FactionID>>; the cell of region i holds 10 + i, that of system i 20 + i.
Cells(specs, i) == Cardinality({k \in 1..i : specs[k][2]})

FactionInput(regionSpecs, systemSpecs) ==
  [BaseParseResult EXCEPT
     !.Regions = [i \in 1..Len(regionSpecs) |->
                    Region(regionSpecs[i][1], ToString(i),
                           IF regionSpecs[i][2] THEN Cells(regionSpecs, i) ELSE NIL)],
     !.SolarSystems = [i \in 1..Len(systemSpecs) |->
                         SolarSystem(i, systemSpecs[i][1], 1, 0, 0, 0, 0,
                                     IF systemSpecs[i][2]
                                     THEN Cells(regionSpecs, Len(regionSpecs))
                                          + Cells(systemSpecs, i)
                                     ELSE NIL)]]

RECURSIVE FactionCells(_, _, _)
FactionCells(specs, base, i) ==
  IF i > Len(specs) THEN <<>>
  ELSE (IF specs[i][2] THEN <<base + i>> ELSE <<>>) \o FactionCells(specs, base, i + 1)

FactionHeap(regionSpecs, systemSpecs) ==
  FactionCells(regionSpecs, 10, 1) \o FactionCells(systemSpecs, 20, 1)

Configs == [DownloadSDE : BOOLEAN, PassthroughDir : {"", "passthrough"}]

\* Transform giving up on a ParseResult without solar systems
AssembleRequiringSystems(systems, regions, constellations, invGroups, invTypes, wormholeClasses, systemJumps, npcStations, h) ==
  IF Len(systems) = 0
  THEN [data |-> <<>>, heap |-> h, err |-> "no solar systems"]
  ELSE
    LET boundedRegions == CalculateRegionBounds(regions, systems)
        boundedConstellations == CalculateConstellationBounds(constellations, systems)
        inherited == InheritFactionIDs(systems, boundedRegions, h)
    IN [data |-> [Universe |-> [Regions |-> boundedRegions,
                                Constellations |-> boundedConstellations,
                                SolarSystems |-> inherited.systems],
                  InvTypes |-> invTypes,
                  InvGroups |-> invGroups,
                  WormholeClasses |-> wormholeClasses,
                  SystemJumps |-> systemJumps,
                  NPCStations |-> npcStations],
        heap |-> inherited.heap,
        err |-> ""]

\* ------------------------------------------------------------------------
\* Transform as a whole
\* ------------------------------------------------------------------------
\* what Transform builds once the sorts and the map iterations have given
\* systems, regions, ...: bounds and faction inheritance run on the copies
Assemble(systems, regions, constellations, invGroups, invTypes, wormholeClasses, systemJumps, npcStations, h) ==
  LET boundedRegions == CalculateRegionBounds(regions, systems)
      boundedConstellations == CalculateConstellationBounds(constellations, systems)
      inherited == InheritFactionIDs(systems, boundedRegions, h)
  IN [data |-> [Universe |-> [Regions |-> boundedRegions,
                              Constellations |-> boundedConstellations,
                              SolarSystems |-> inherited.systems],
                InvTypes |-> invTypes,
                InvGroups |-> invGroups,
                WormholeClasses |-> wormholeClasses,
                SystemJumps |-> systemJumps,
                NPCStations |-> npcStations],
      heap |-> inherited.heap,
      err |-> ""]

\* ------------------------------------------------------------------------
\* runConversion, step by step
\* ------------------------------------------------------------------------
Init ==
  /\ pc = "download"
  /\ cfg \in Configs
  /\ versionInfo = <<>>
  /\ parseResult = <<>>
  /\ heap = <<>>
  /\ convertedData = <<>>
  /\ validationResult = <<>>
  /\ calls = <<>>
  /\ err = ""
  /\ trueSecurity = <<>>
  /\ roundedSecurity = <<>>
  /\ rawStargates = <<>>
  /\ versionFile = <<>>
  /\ versionCalls = <<>>
  /\ cancelledAt = <<>>
  /\ needsUpdate = FALSE
  /\ sdeDir = <<>>
  /\ downloadedPath = <<>>

\* Step 1: without --download nothing happens and versionInfo stays nil.
\* With it the version check gives version info or fails (nil), and the
\* download, when one is made, succeeds or ends the run.
SkipDownload ==
  /\ pc = "download"
  /\ ~cfg.DownloadSDE
  /\ pc' = "parse"
  /\ UNCHANGED <<cfg, versionInfo, parseResult, heap, convertedData,
                 validationResult, calls, err>>
  /\ UNCHANGED <<trueSecurity, roundedSecurity, rawStargates, versionFile, versionCalls>>
  /\ UNCHANGED downloadVars

DownloadSDE ==
  /\ pc = "download"
  /\ cfg.DownloadSDE
  /\ \E info \in {<<>>, <<1>>} :
       /\ versionInfo' = info
       /\ pc' = "parse"
       /\ err' = ""
  /\ UNCHANGED <<cfg, parseResult, heap, convertedData, validationResult, calls>>
  /\ UNCHANGED <<trueSecurity, roundedSecurity, rawStargates, versionFile, versionCalls>>
  /\ UNCHANGED downloadVars

DownloadFails ==
  /\ pc = "download"
  /\ cfg.DownloadSDE
  /\ \E info \in {<<>>, <<1>>} : versionInfo' = info
  /\ pc' = "returned"
  /\ err' = "failed to download SDE"
  /\ UNCHANGED <<cfg, parseResult, heap, convertedData, validationResult, calls>>
  /\ UNCHANGED <<trueSecurity, roundedSecurity, rawStargates, versionFile, versionCalls>>
  /\ UNCHANGED downloadVars

\* Step 2: ParseAll returns a ParseResult or an error
Parsed(pr, h) ==
  /\ parseResult' = <<pr>>
  /\ heap' = h
  /\ pc' = "transform"
  /\ UNCHANGED <<cfg, versionInfo, convertedData, validationResult, calls, err>>
  /\ UNCHANGED <<trueSecurity, roundedSecurity, rawStargates, versionFile, versionCalls>>
  /\ UNCHANGED downloadVars

ParseAllRegions ==
  /\ pc = "parse"
  /\ \E ids \in SeqsUpTo(IDs, MaxLen) : Parsed(RegionInput(ids), <<>>)

ParseAllConstellations ==
  /\ pc = "parse"
  /\ \E ids \in SeqsUpTo(IDs, MaxLen) : Parsed(ConstellationInput(ids), <<>>)

ParseAllSystems ==
  /\ pc = "parse"
  /\ \E ids \in SeqsUpTo(IDs, MaxLen) : Parsed(JumpInput(ids, <<>>), <<>>)

ParseAllWormholeClasses ==
  /\ pc = "parse"
  /\ \E ids \in SeqsUpTo(IDs, MaxLen) : Parsed(WormholeClassInput(ids), <<>>)

ParseAllJumps ==
  /\ pc = "parse"
  /\ \E ids \in SeqsUpTo(IDs, MaxLen), pairs \in SeqsUpTo(IDs \X IDs, MaxLen) :
       Parsed(JumpInput(ids, pairs), <<>>)

\* ParseAll with the jumps ParseStargates extracts from the gates
ParseAllStargates ==
  /\ pc = "parse"
  /\ \E stargates \in StargateMaps :
       /\ rawStargates' = <<stargates>>
       /\ \E jumps \in ParseStargates(stargates) :
            parseResult' = <<[JumpInput(<<1, 2>>, <<>>) EXCEPT !.SystemJumps = jumps]>>
  /\ heap' = <<>>
  /\ pc' = "transform"
  /\ UNCHANGED <<cfg, versionInfo, convertedData, validationResult, calls, err>>
  /\ UNCHANGED <<trueSecurity, roundedSecurity, versionFile, versionCalls>>
  /\ UNCHANGED downloadVars

ParseAllItems ==
  /\ pc = "parse"
  /\ \E types \in TypeMaps, groups \in GroupMaps :
       Parsed(ItemInput(types, groups), <<>>)

ParseAllNames ==
  /\ pc = "parse"
  /\ \E types \in NamedTypeMaps, groups \in NamedGroupMaps :
       Parsed(ItemInput(types, groups), <<>>)

ParseAllPublished ==
  /\ pc = "parse"
  /\ \E types \in PublishedTypeMaps, groups \in PublishedGroupMaps :
       Parsed(ItemInput(types, groups), <<>>)

ParseAllStations ==
  /\ pc = "parse"
  /\ \E stations \in StationMaps, corps \in CorporationMaps :
       Parsed(StationInput(stations, corps), <<>>)

\* every file of the SDE parses to nothing
ParseAllEmpty ==
  /\ pc = "parse"
  /\ Parsed(EmptyParseResult, <<>>)

ParseFails ==
  /\ pc = "parse"
  /\ pc' = "returned"
  /\ err' = "failed to parse SDE"
  /\ UNCHANGED <<cfg, versionInfo, parseResult, heap, convertedData,
                 validationResult, calls>>
  /\ UNCHANGED <<trueSecurity, roundedSecurity, rawStargates, versionFile, versionCalls>>
  /\ UNCHANGED downloadVars

\* Transform sorting and writing bounds and faction IDs in the slices of
\* its ParseResult, without the copies
LeftInInputInPlace(pr, data) ==
  [pr EXCEPT !.SolarSystems = data.Universe.SolarSystems,
             !.Regions = data.Universe.Regions,
             !.Constellations = data.Universe.Constellations,
             !.WormholeClasses = data.WormholeClasses]

\* what the slices and maps of the ParseResult hold when Transform has
\* built data: transformSolarSystems and the three sorts work on a slice
\* they make and copy, transformSystemJumps and the map transformations
\* append to a new slice, and the bounds and faction IDs are written to the
\* copies, so nothing is stored in pr
LeftInInput(pr, data) == pr

\* Step 3: Transform. The sorts pick among equal keys and the runtime
\* picks the order in which each map is ranged over.
Transform ==
  /\ pc = "transform"
  /\ LET pr == parseResult[1] IN
     \E systems \in transformSolarSystems(pr.SolarSystems),
        regions \in sortRegions(pr.Regions),
        constellations \in sortConstellations(pr.Constellations),
        groupOrder \in Orders(DOMAIN pr.Groups),
        typeOrder \in Orders(DOMAIN pr.Types),
        wormholeClasses \in sortWormholeClasses(pr.WormholeClasses),
        stationOrder \in Orders(DOMAIN pr.NPCStations) :
     \E invGroups \in transformShipGroups(pr.Groups, groupOrder),
        invTypes \in transformShipTypes(pr.Types, pr.Groups, typeOrder),
        systemJumps \in transformSystemJumps(pr.SystemJumps, systems),
        npcStations \in transformNPCStations(pr.NPCStations, pr.NPCCorporations,
                                             stationOrder) :
       LET out == Assemble(systems, regions, constellations, invGroups, invTypes,
                           wormholeClasses, systemJumps, npcStations, heap)
       IN IF out.err = ""
          THEN /\ convertedData' = <<out.data>>
               /\ parseResult' = <<LeftInInput(pr, out.data)>>
               /\ heap' = out.heap
               /\ pc' = "validate"
               /\ err' = err
          ELSE /\ pc' = "returned"
               /\ err' = "failed to transform data: " \o out.err
               /\ UNCHANGED <<parseResult, convertedData, heap>>
  /\ UNCHANGED <<cfg, versionInfo, validationResult, calls>>
  /\ UNCHANGED <<trueSecurity, roundedSecurity, rawStargates, versionFile, versionCalls>>
  /\ UNCHANGED downloadVars

\* runConversion without the test of the validation result
ValidationNeverFailed(v) == FALSE

\* the test of main.go on the validation result
ValidationFailed(v) == Len(v.Errors) > 0

\* Validate, then return on errors
ValidateData ==
  /\ pc = "validate"
  /\ LET v == Validate(convertedData[1])
     IN /\ validationResult' = <<v>>
        /\ IF ValidationFailed(v)
           THEN /\ pc' = "returned"
                /\ err' = "validation failed with " \o ToString(Len(v.Errors)) \o " errors"
           ELSE /\ pc' = "write"
                /\ err' = ""
  /\ UNCHANGED <<cfg, versionInfo, parseResult, heap, convertedData, calls>>
  /\ UNCHANGED <<trueSecurity, roundedSecurity, rawStargates, versionFile, versionCalls>>
  /\ UNCHANGED downloadVars

\* Step 4: NewWriter (the format was checked when the flags were read)
\* and WriteAll, which succeeds or fails
WriteAll ==
  /\ pc = "write"
  /\ calls' = Append(calls, "WriteAll")
  /\ \/ /\ pc' = "metadata"
        /\ err' = ""
     \/ /\ pc' = "returned"
        /\ err' = "failed to write output"
  /\ UNCHANGED <<cfg, versionInfo, parseResult, heap, convertedData, validationResult>>
  /\ UNCHANGED <<trueSecurity, roundedSecurity, rawStargates, versionFile, versionCalls>>
  /\ UNCHANGED downloadVars

\* Step 5: writeMetadata, only with version info; its failure is a warning
WriteMetadata ==
  /\ pc = "metadata"
  /\ versionInfo # <<>>
  /\ calls' = Append(calls, "writeMetadata")
  /\ pc' = "passthrough"
  /\ UNCHANGED <<cfg, versionInfo, parseResult, heap, convertedData,
                 validationResult, err>>
  /\ UNCHANGED <<trueSecurity, roundedSecurity, rawStargates, versionFile, versionCalls>>
  /\ UNCHANGED downloadVars

SkipMetadata ==
  /\ pc = "metadata"
  /\ versionInfo = <<>>
  /\ pc' = "passthrough"
  /\ UNCHANGED <<cfg, versionInfo, parseResult, heap, convertedData,
                 validationResult, calls, err>>
  /\ UNCHANGED <<trueSecurity, roundedSecurity, rawStargates, versionFile, versionCalls>>
  /\ UNCHANGED downloadVars

\* Step 6: CopyPassthroughFiles, only with --passthrough
CopyPassthroughFiles ==
  /\ pc = "passthrough"
  /\ cfg.PassthroughDir # ""
  /\ calls' = Append(calls, "CopyPassthroughFiles")
  /\ \/ /\ pc' = "returned"
        /\ err' = ""
     \/ /\ pc' = "returned"
        /\ err' = "failed to copy passthrough files"
  /\ UNCHANGED <<cfg, versionInfo, parseResult, heap, convertedData, validationResult>>
  /\ UNCHANGED <<trueSecurity, roundedSecurity, rawStargates, versionFile, versionCalls>>
  /\ UNCHANGED downloadVars

SkipPassthrough ==
  /\ pc = "passthrough"
  /\ cfg.PassthroughDir = ""
  /\ pc' = "returned"
  /\ UNCHANGED <<cfg, versionInfo, parseResult, heap, convertedData,
                 validationResult, calls, err>>
  /\ UNCHANGED <<trueSecurity, roundedSecurity, rawStargates, versionFile, versionCalls>>
  /\ UNCHANGED downloadVars

Next ==
  \/ SkipDownload
  \/ DownloadSDE
  \/ DownloadFails
  \/ ParseAllRegions
  \/ ParseAllConstellations
  \/ ParseAllSystems
  \/ ParseFails
  \/ Transform
  \/ ValidateData
  \/ WriteAll
  \/ WriteMetadata
  \/ SkipMetadata
  \/ CopyPassthroughFiles
  \/ SkipPassthrough

\* every run of sdeconvert, under all flags, over inputs that vary the
\* three required collections
Spec == Init /\ [][Next]_vars

\* the runs without --download and --passthrough, over every input
\* family, followed up to the end of the validation
InitTransform ==
  /\ Init
  /\ cfg = [DownloadSDE |-> FALSE, PassthroughDir |-> ""]

NextTransform ==
  \/ SkipDownload
  \/ ParseAllEmpty
  \/ ParseAllPublished
  \/ ParseAllStargates
  \/ ParseAllNames
  \/ ParseAllRegions
  \/ ParseAllConstellations
  \/ ParseAllWormholeClasses
  \/ ParseAllJumps
  \/ ParseAllItems
  \/ ParseAllStations
  \/ ParseFails
  \/ Transform
  \/ ValidateData

SpecTransform == InitTransform /\ [][NextTransform]_vars

\* Validate applied to collections of every size around its thresholds, as
\* the unit tests do with make([]T, n): elements are zero values
Sizes(minimum) == {0, minimum - 1, minimum}

ZeroSlice(zero, n) == [i \in 1..n |-> zero]

SizedData(nSystems, nRegions, nConstellations, nTypes, nGroups, nJumps, nClasses, nStations) ==
  [Universe |-> [Regions |-> ZeroSlice(Region(0, "", NIL), nRegions),
                 Constellations |-> ZeroSlice(Constellation(0, 0, ""), nConstellations),
                 SolarSystems |-> ZeroSlice(SolarSystem(0, 0, 0, 0, 0, 0, 0, NIL), nSystems)],
   InvTypes |-> ZeroSlice(InvType(0, 0, "", FALSE), nTypes),
   InvGroups |-> ZeroSlice(InvGroup(0, 0, ""), nGroups),
   WormholeClasses |-> ZeroSlice(WormholeClassLocation(0, 0), nClasses),
   SystemJumps |-> ZeroSlice(SystemJump(0, 0, 0, 0, 0, 0), nJumps),
   NPCStations |-> ZeroSlice(NPCStation(0, 0, 0, "", 0), nStations)]

\* the required collections at every size with the others all empty or
\* all at their minimum, and the others at every size with the required
\* at theirs
InitValidate ==
  /\ pc = "validate"
  /\ cfg = [DownloadSDE |-> FALSE, PassthroughDir |-> ""]
  /\ versionInfo = <<>>
  /\ parseResult = <<>>
  /\ heap = <<>>
  /\ \/ \E nSystems \in Sizes(minSolarSystems), nRegions \in Sizes(minRegions),
           nConstellations \in Sizes(minConstellations), full \in BOOLEAN :
          convertedData =
            <<SizedData(nSystems, nRegions, nConstellations,
                        IF full THEN minShipTypes ELSE 0,
                        IF full THEN minShipGroups ELSE 0,
                        IF full THEN minSystemJumps ELSE 0,
                        IF full THEN minWormholeClasses ELSE 0,
                        IF full THEN minNPCStations ELSE 0)>>
     \/ \E nTypes \in Sizes(minShipTypes), nGroups \in Sizes(minShipGroups),
           nJumps \in Sizes(minSystemJumps), nClasses \in Sizes(minWormholeClasses),
           nStations \in Sizes(minNPCStations) :
          convertedData =
            <<SizedData(minSolarSystems, minRegions, minConstellations, nTypes,
                        nGroups, nJumps, nClasses, nStations)>>
  /\ validationResult = <<>>
  /\ calls = <<>>
  /\ err = ""
  /\ trueSecurity = <<>>
  /\ roundedSecurity = <<>>
  /\ rawStargates = <<>>
  /\ versionFile = <<>>
  /\ versionCalls = <<>>
  /\ cancelledAt = <<>>
  /\ needsUpdate = FALSE
  /\ sdeDir = <<>>
  /\ downloadedPath = <<>>

NextValidate == ValidateData

SpecValidate == InitValidate /\ [][NextValidate]_vars

\* Transform applied to a ParseResult built by hand, as TestTransformer_Transform
\* does
InitSystems ==
  /\ pc = "transform"
  /\ cfg = [DownloadSDE |-> FALSE, PassthroughDir |-> ""]
  /\ versionInfo = <<>>
  /\ \/ /\ \E parents \in SeqsUpTo(IDs, MaxLen), earlier \in {0, 5},
              tags \in SeqsUpTo(IDs \X (1..Len(Points)), MaxLen) :
             parseResult = <<GeometryInput(parents, earlier, tags)>>
        /\ heap = <<>>
     \/ \E regionSpecs \in SeqsUpTo(IDs \X BOOLEAN, MaxLen),
           systemSpecs \in SeqsUpTo(IDs \X BOOLEAN, MaxLen) :
          /\ parseResult = <<FactionInput(regionSpecs, systemSpecs)>>
          /\ heap = FactionHeap(regionSpecs, systemSpecs)
     \/ /\ \E raws \in SeqsUpTo(RawSecurities, MaxLen) :
             parseResult = <<SecurityInput(raws)>>
        /\ heap = <<>>
  /\ convertedData = <<>>
  /\ validationResult = <<>>
  /\ calls = <<>>
  /\ err = ""
  /\ trueSecurity = <<>>
  /\ roundedSecurity = <<>>
  /\ rawStargates = <<>>
  /\ versionFile = <<>>
  /\ versionCalls = <<>>
  /\ cancelledAt = <<>>
  /\ needsUpdate = FALSE
  /\ sdeDir = <<>>
  /\ downloadedPath = <<>>

\* a caller of Transform writes a new value through the FactionID of a
\* system of the result
WriteFactionID ==
  /\ pc = "validate"
  /\ \E i \in 1..Len(convertedData[1].Universe.SolarSystems) :
       LET p == convertedData[1].Universe.SolarSystems[i].FactionID
       IN /\ p # NIL
          /\ heap' = [heap EXCEPT ![p] = 99]
  /\ pc' = "written"
  /\ UNCHANGED <<cfg, versionInfo, parseResult, convertedData, validationResult,
                 calls, err>>
  /\ UNCHANGED <<trueSecurity, roundedSecurity, rawStargates, versionFile, versionCalls>>
  /\ UNCHANGED downloadVars

NextSystems ==
  \/ Transform
  \/ WriteFactionID

SpecSystems == InitSystems /\ [][NextSystems]_vars

\* Transform applied to regions, constellations and systems whose region
\* and constellation are chosen freely; the last region may be missing
InitBounds ==
  /\ pc = "transform"
  /\ cfg = [DownloadSDE |-> FALSE, PassthroughDir |-> ""]
  /\ versionInfo = <<>>
  /\ \E count \in {MaxID - 1, MaxID},
        tags \in SeqsUpTo(IDs \X IDs \X (1..Len(Points)), MaxLen) :
       parseResult = <<NestingInput(count, tags)>>
  /\ heap = <<>>
  /\ convertedData = <<>>
  /\ validationResult = <<>>
  /\ calls = <<>>
  /\ err = ""
  /\ trueSecurity = <<>>
  /\ roundedSecurity = <<>>
  /\ rawStargates = <<>>
  /\ versionFile = <<>>
  /\ versionCalls = <<>>
  /\ cancelledAt = <<>>
  /\ needsUpdate = FALSE
  /\ sdeDir = <<>>
  /\ downloadedPath = <<>>

NextBounds == Transform

SpecBounds == InitBounds /\ [][NextBounds]_vars

\* GetTrueSecurity is a library function no step of runConversion calls:
\* a caller holds a raw value and applies the function to it, then to the
\* result, as a test of the package does
InitSecurity ==
  /\ pc = "security"
  /\ cfg = [DownloadSDE |-> FALSE, PassthroughDir |-> ""]
  /\ versionInfo = <<>>
  /\ parseResult = <<>>
  /\ heap = <<>>
  /\ convertedData = <<>>
  /\ validationResult = <<>>
  /\ calls = <<>>
  /\ err = ""
  /\ \E raw \in (-MaxSecurity)..MaxSecurity : trueSecurity = <<raw>>
  /\ roundedSecurity = <<>>
  /\ rawStargates = <<>>
  /\ versionFile = <<>>
  /\ versionCalls = <<>>
  /\ cancelledAt = <<>>
  /\ needsUpdate = FALSE
  /\ sdeDir = <<>>
  /\ downloadedPath = <<>>

CallGetTrueSecurity ==
  /\ pc = "security"
  /\ Len(trueSecurity) < 3
  /\ trueSecurity' = Append(trueSecurity, GetTrueSecurity(trueSecurity[Len(trueSecurity)]))
  /\ UNCHANGED <<pc, cfg, versionInfo, parseResult, heap, convertedData,
                 validationResult, calls, err>>
  /\ UNCHANGED <<roundedSecurity, rawStargates, versionFile, versionCalls>>
  /\ UNCHANGED downloadVars

CallRoundSecurity ==
  /\ pc = "security"
  /\ roundedSecurity = <<>>
  /\ roundedSecurity' = <<RoundSecurity(trueSecurity[1])>>
  /\ UNCHANGED <<pc, cfg, versionInfo, parseResult, heap, convertedData,
                 validationResult, calls, err>>
  /\ UNCHANGED <<trueSecurity, rawStargates, versionFile, versionCalls>>
  /\ UNCHANGED downloadVars

NextSecurity ==
  \/ CallGetTrueSecurity
  \/ CallRoundSecurity

SpecSecurity == InitSecurity /\ [][NextSecurity]_vars

\* StoreVersion and NeedsUpdate called on one directory, as
\* TestVersionChecker_NeedsUpdate does. The directory holds no version
\* file or one with any content; the server answers with a build number,
\* fmt.Sprintf("%d", n) of an n > 0, or the request fails.
InitVersion ==
  /\ pc = "version"
  /\ cfg = [DownloadSDE |-> TRUE, PassthroughDir |-> ""]
  /\ versionInfo = <<>>
  /\ parseResult = <<>>
  /\ heap = <<>>
  /\ convertedData = <<>>
  /\ validationResult = <<>>
  /\ calls = <<>>
  /\ err = ""
  /\ trueSecurity = <<>>
  /\ roundedSecurity = <<>>
  /\ rawStargates = <<>>
  /\ \/ versionFile = <<>>
     \/ \E content \in SeqsUpTo(Digits \cup Spaces, MaxLen) : versionFile = <<content>>
  /\ versionCalls = <<>>
  /\ cancelledAt = <<>>
  /\ needsUpdate = FALSE
  /\ sdeDir = <<>>
  /\ downloadedPath = <<>>

StoreVersion ==
  /\ pc = "version"
  /\ versionCalls = <<>>
  /\ \E version \in SeqsUpTo(Digits \cup {" "}, MaxLen) :
       /\ versionFile' = <<VersionFileContent(version)>>
       /\ versionCalls' = Append(versionCalls,
                                 [op |-> "StoreVersion", version |-> version])
  /\ UNCHANGED <<pc, cfg, versionInfo, parseResult, heap, convertedData,
                 validationResult, calls, err, trueSecurity, roundedSecurity, rawStargates>>
  /\ UNCHANGED downloadVars

NeedsUpdate ==
  /\ pc = "version"
  /\ \E latest \in SeqsUpTo(Digits, MaxLen) \ {<<>>} :
       versionCalls' = Append(versionCalls, NeedsUpdateResult(versionFile, latest))
  /\ pc' = "checked"
  /\ UNCHANGED <<cfg, versionInfo, parseResult, heap, convertedData,
                 validationResult, calls, err, trueSecurity, roundedSecurity, rawStargates, versionFile>>
  /\ UNCHANGED downloadVars

NeedsUpdateFails ==
  /\ pc = "version"
  /\ \E message \in {"failed to fetch latest version", "failed to read version file"} :
       /\ message = "failed to read version file" => versionFile # <<>>
       /\ versionCalls' = Append(versionCalls, NeedsUpdateError(message))
  /\ pc' = "checked"
  /\ UNCHANGED <<cfg, versionInfo, parseResult, heap, convertedData,
                 validationResult, calls, err, trueSecurity, roundedSecurity, rawStargates, versionFile>>
  /\ UNCHANGED downloadVars

NextVersion ==
  \/ StoreVersion
  \/ NeedsUpdate
  \/ NeedsUpdateFails

SpecVersion == InitVersion /\ [][NextVersion]_vars

\* ------------------------------------------------------------------------
\* runConversion with step 1 in detail and the signal handler goroutine
\* ------------------------------------------------------------------------
\* the error of a call whose context is done
ContextCanceled == "context canceled"

\* the stored versions and the SDE directories a run can start with
InitRun ==
  /\ pc = "check"
  /\ cfg \in Configs
  /\ versionInfo = <<>>
  /\ parseResult = <<>>
  /\ heap = <<>>
  /\ convertedData = <<>>
  /\ validationResult = <<>>
  /\ calls = <<>>
  /\ err = ""
  /\ trueSecurity = <<>>
  /\ roundedSecurity = <<>>
  /\ rawStargates = <<>>
  /\ versionFile \in {<<>>, <<VersionFileContent(<<"1">>)>>}
  /\ versionCalls = <<>>
  /\ cancelledAt = <<>>
  /\ needsUpdate = FALSE
  /\ sdeDir \in {<<>>, <<"old">>, <<"incomplete">>}
  /\ downloadedPath = <<>>

\* a signal handler that ends the run where it stands
CancelExits ==
  /\ pc # "returned"
  /\ cancelledAt = <<>>
  /\ cancelledAt' = <<pc>>
  /\ pc' = "returned"
  /\ err' = ContextCanceled
  /\ UNCHANGED <<cfg, versionInfo, parseResult, heap, convertedData,
                 validationResult, calls, trueSecurity, roundedSecurity, rawStargates,
                 versionFile, versionCalls, needsUpdate, sdeDir, downloadedPath>>

\* the signal handler goroutine: on the first signal it calls cancel() and
\* ends; runConversion goes on from where it is
Cancel ==
  /\ pc # "returned"
  /\ cancelledAt = <<>>
  /\ cancelledAt' = <<pc>>
  /\ UNCHANGED <<pc, cfg, versionInfo, parseResult, heap, convertedData,
                 validationResult, calls, err, trueSecurity, roundedSecurity, rawStargates,
                 versionFile, versionCalls, needsUpdate, sdeDir, downloadedPath>>

\* without --download step 1 is skipped
NoDownload ==
  /\ pc = "check"
  /\ ~cfg.DownloadSDE
  /\ pc' = "structure"
  /\ UNCHANGED <<cfg, versionInfo, parseResult, heap, convertedData,
                 validationResult, calls, err>>
  /\ UNCHANGED <<trueSecurity, roundedSecurity, rawStargates, versionFile, versionCalls>>
  /\ UNCHANGED downloadVars

\* vc.NeedsUpdate(ctx, cfg.OutputDir): the request of GetLatestVersion
\* fails when ctx is done and can fail for other reasons; an error is a
\* warning and sets needsUpdate
CheckVersion ==
  /\ pc = "check"
  /\ cfg.DownloadSDE
  /\ \E result \in
         IF cancelledAt # <<>>
         THEN {NeedsUpdateError(ContextCanceled)}
         ELSE {NeedsUpdateError("failed to fetch latest version")}
              \cup {NeedsUpdateResult(versionFile, latest) : latest \in {<<"1">>, <<"2">>}} :
       /\ versionCalls' = Append(versionCalls, result)
       /\ versionInfo' = result.latest
       /\ needsUpdate' = IF result.err # "" THEN TRUE ELSE result.needsUpdate
  /\ pc' = "stat"
  /\ UNCHANGED <<cfg, parseResult, heap, convertedData, validationResult, calls,
                 err, trueSecurity, roundedSecurity, rawStargates, versionFile, cancelledAt,
                 sdeDir, downloadedPath>>

\* os.Stat(sdePath): a missing SDE directory sets needsUpdate; then the
\* branch on needsUpdate
StatSDEPath ==
  /\ pc = "stat"
  /\ needsUpdate' = (needsUpdate \/ sdeDir = <<>>)
  /\ pc' = IF needsUpdate' THEN "fetch" ELSE "structure"
  /\ UNCHANGED <<cfg, versionInfo, parseResult, heap, convertedData,
                 validationResult, calls, err, trueSecurity, roundedSecurity, rawStargates,
                 versionFile, versionCalls, cancelledAt, sdeDir, downloadedPath>>

\* step 1 going on to the removal of the old SDE when DownloadAndExtract
\* has failed
DownloadAndExtractUnchecked ==
  /\ pc = "fetch"
  /\ downloadedPath' \in IF cancelledAt = <<>> THEN {<<>>, <<"new">>} ELSE {<<>>}
  /\ pc' = "remove"
  /\ UNCHANGED <<cfg, versionInfo, parseResult, heap, convertedData,
                 validationResult, calls, err, trueSecurity, roundedSecurity, rawStargates,
                 versionFile, versionCalls, cancelledAt, needsUpdate, sdeDir>>

\* dl.DownloadAndExtract(ctx): Download fails when ctx is done; Download,
\* Extract and Validate can fail for other reasons, and each failure
\* removes the temporary directory and ends the run
DownloadAndExtract ==
  /\ pc = "fetch"
  /\ \/ /\ cancelledAt = <<>>
        /\ downloadedPath' = <<"new">>
        /\ pc' = "remove"
        /\ err' = err
     \/ /\ downloadedPath' = <<>>
        /\ pc' = "returned"
        /\ err' \in IF cancelledAt # <<>>
                    THEN {"failed to download SDE: " \o ContextCanceled}
                    ELSE {"failed to download SDE"}
  /\ UNCHANGED <<cfg, versionInfo, parseResult, heap, convertedData,
                 validationResult, calls, trueSecurity, roundedSecurity, rawStargates,
                 versionFile, versionCalls, cancelledAt, needsUpdate, sdeDir>>

\* os.RemoveAll(sdePath); its failure is a warning
RemoveOldSDE ==
  /\ pc = "remove"
  /\ sdeDir' \in {<<>>, sdeDir}
  /\ pc' = "move"
  /\ UNCHANGED <<cfg, versionInfo, parseResult, heap, convertedData,
                 validationResult, calls, err, trueSecurity, roundedSecurity, rawStargates,
                 versionFile, versionCalls, cancelledAt, needsUpdate,
                 downloadedPath>>

\* os.Rename, or copyDir when it fails; when both fail the temporary
\* directory is removed and the run ends
MoveSDE ==
  /\ pc = "move"
  /\ downloadedPath' = <<>>
  /\ \/ /\ sdeDir' = downloadedPath
        /\ pc' = "store"
        /\ err' = err
     \/ /\ sdeDir' \in {sdeDir, <<"incomplete">>}
        /\ pc' = "returned"
        /\ err' = "failed to move SDE"
  /\ UNCHANGED <<cfg, versionInfo, parseResult, heap, convertedData,
                 validationResult, calls, trueSecurity, roundedSecurity, rawStargates,
                 versionFile, versionCalls, cancelledAt, needsUpdate>>

\* vc.StoreVersion(cfg.OutputDir, versionInfo.BuildNumber), only with
\* version info; its failure is a warning and leaves the file as it was
\* or cut short
StoreLatestVersion ==
  /\ pc = "store"
  /\ IF versionInfo = <<>>
     THEN UNCHANGED <<versionFile, versionCalls>>
     ELSE /\ versionFile' \in {<<VersionFileContent(versionInfo[1])>>, versionFile, <<<<>>>>}
          /\ versionCalls' = Append(versionCalls,
                                    [op |-> "StoreVersion", version |-> versionInfo[1]])
  /\ pc' = "structure"
  /\ UNCHANGED <<cfg, versionInfo, parseResult, heap, convertedData,
                 validationResult, calls, err, trueSecurity, roundedSecurity, rawStargates,
                 cancelledAt, needsUpdate, sdeDir, downloadedPath>>

\* dl.Validate(sdePath): every expected file is there
ValidateSDE ==
  /\ pc = "structure"
  /\ IF sdeDir \in {<<"old">>, <<"new">>}
     THEN /\ pc' = "parse"
          /\ err' = err
     ELSE /\ pc' = "returned"
          /\ err' = "SDE validation failed"
  /\ UNCHANGED <<cfg, versionInfo, parseResult, heap, convertedData,
                 validationResult, calls, trueSecurity, roundedSecurity, rawStargates,
                 versionFile, versionCalls>>
  /\ UNCHANGED downloadVars

NextRun ==
  \/ Cancel
  \/ NoDownload
  \/ CheckVersion
  \/ StatSDEPath
  \/ DownloadAndExtract
  \/ RemoveOldSDE
  \/ MoveSDE
  \/ StoreLatestVersion
  \/ ValidateSDE
  \/ ParseAllSystems
  \/ ParseFails
  \/ Transform
  \/ ValidateData
  \/ WriteAll
  \/ WriteMetadata
  \/ SkipMetadata
  \/ CopyPassthroughFiles
  \/ SkipPassthrough

\* every run of sdeconvert with a signal arriving at any moment, or never
SpecRun == InitRun /\ [][NextRun]_vars

\* ------------------------------------------------------------------------
\* Properties
\* ------------------------------------------------------------------------
\* Transform has returned: its input and its output
Transformed == convertedData # <<>>
input == parseResult[1]
data == convertedData[1]

\* the (From, To) order on jumps
PairBefore(a, b) ==
  \/ a.FromSolarSystemID < b.FromSolarSystemID
  \/ /\ a.FromSolarSystemID = b.FromSolarSystemID
     /\ a.ToSolarSystemID < b.ToSolarSystemID

\* no key occurs twice in a sequence of keys
DistinctKeys(keys) ==
  \A i, j \in 1..Len(keys) : i # j => keys[i] # keys[j]

StrictlyAscending(keys) ==
  \A i \in 1..(Len(keys) - 1) : keys[i] < keys[i + 1]

Ascending(keys) ==
  \A i \in 1..(Len(keys) - 1) : keys[i] <= keys[i + 1]

\* the keys of a collection, in its order
RegionKey(s) == [i \in 1..Len(s) |-> s[i].RegionID]
ConstellationKey(s) == [i \in 1..Len(s) |-> s[i].ConstellationID]
SolarSystemKey(s) == [i \in 1..Len(s) |-> s[i].SolarSystemID]
WormholeClassKey(s) == [i \in 1..Len(s) |-> s[i].LocationID]
TypeKey(s) == [i \in 1..Len(s) |-> s[i].TypeID]
GroupKey(s) == [i \in 1..Len(s) |-> s[i].GroupID]
StationKey(s) == [i \in 1..Len(s) |-> s[i].StationID]
JumpKey(j) == <<j.FromSolarSystemID, j.ToSolarSystemID>>
JumpKeys(s) == [i \in 1..Len(s) |-> JumpKey(s[i])]

JumpsStrictlyAscending(s) ==
  \A i \in 1..(Len(s) - 1) : PairBefore(s[i], s[i + 1])

JumpsAscending(s) ==
  \A i \in 1..(Len(s) - 1) : ~PairBefore(s[i + 1], s[i])

\* C1 as stated: after Transform every output collection is strictly
\* ascending by its key, whatever the input. Refuted by an input slice
\* that holds the same key twice.
C1_StrictlySortedAnyInput ==
  Transformed =>
    /\ StrictlyAscending(RegionKey(data.Universe.Regions))
    /\ StrictlyAscending(ConstellationKey(data.Universe.Constellations))
    /\ StrictlyAscending(SolarSystemKey(data.Universe.SolarSystems))
    /\ StrictlyAscending(TypeKey(data.InvTypes))
    /\ StrictlyAscending(GroupKey(data.InvGroups))
    /\ StrictlyAscending(WormholeClassKey(data.WormholeClasses))
    /\ StrictlyAscending(StationKey(data.NPCStations))
    /\ JumpsStrictlyAscending(data.SystemJumps)

\* C1 amended: after Transform every output collection is ascending by
\* its key (no element has a smaller key than its predecessor); InvTypes,
\* InvGroups and NPCStations are strictly ascending for every input, and
\* Regions, Constellations, SolarSystems, WormholeClasses and SystemJumps
\* are strictly ascending whenever the input slice holds no key twice.
C1_Sorted ==
  Transformed =>
    /\ Ascending(RegionKey(data.Universe.Regions))
    /\ Ascending(ConstellationKey(data.Universe.Constellations))
    /\ Ascending(SolarSystemKey(data.Universe.SolarSystems))
    /\ Ascending(WormholeClassKey(data.WormholeClasses))
    /\ JumpsAscending(data.SystemJumps)
    /\ StrictlyAscending(TypeKey(data.InvTypes))
    /\ StrictlyAscending(GroupKey(data.InvGroups))
    /\ StrictlyAscending(StationKey(data.NPCStations))
    /\ DistinctKeys(RegionKey(input.Regions))
         => StrictlyAscending(RegionKey(data.Universe.Regions))
    /\ DistinctKeys(ConstellationKey(input.Constellations))
         => StrictlyAscending(ConstellationKey(data.Universe.Constellations))
    /\ DistinctKeys(SolarSystemKey(input.SolarSystems))
         => StrictlyAscending(SolarSystemKey(data.Universe.SolarSystems))
    /\ DistinctKeys(WormholeClassKey(input.WormholeClasses))
         => StrictlyAscending(WormholeClassKey(data.WormholeClasses))
    /\ DistinctKeys(JumpKeys(input.SystemJumps))
         => JumpsStrictlyAscending(data.SystemJumps)

\* an input whose jumps and systems are out of order and hold no key
\* twice has been transformed
C1_Witness ==
  /\ Transformed
  /\ Len(input.SystemJumps) >= 2
  /\ DistinctKeys(JumpKeys(input.SystemJumps))
  /\ PairBefore(input.SystemJumps[2], input.SystemJumps[1])
  /\ Len(input.SolarSystems) >= 2
  /\ input.SolarSystems[2].SolarSystemID < input.SolarSystems[1].SolarSystemID
  /\ JumpsStrictlyAscending(data.SystemJumps)

\* C2: the InvTypes, InvGroups and NPCStations a run produced are what
\* Transform produces under every other order in which the runtime could
\* have ranged over the Types, Groups and NPCStations maps
C2_MapOrderIndependent ==
  Transformed =>
    /\ \A o \in Orders(DOMAIN input.Types) :
         transformShipTypes(input.Types, input.Groups, o) = {data.InvTypes}
    /\ \A o \in Orders(DOMAIN input.Groups) :
         transformShipGroups(input.Groups, o) = {data.InvGroups}
    /\ \A o \in Orders(DOMAIN input.NPCStations) :
         transformNPCStations(input.NPCStations, input.NPCCorporations, o)
           = {data.NPCStations}

\* two ship types of two ship groups went through Transform: both maps
\* can be ranged over in more than one order
C2_Witness ==
  /\ Transformed
  /\ Len(data.InvTypes) >= 2
  /\ Len(data.InvGroups) >= 2

\* C7: every output type has its group in the InvGroups output; every
\* output type is an input type of a group of category 6; every input
\* type of such a group is in the output exactly once, with its own
\* TypeID and GroupID
C7_TypeFilterJoin ==
  Transformed =>
    /\ \A i \in 1..Len(data.InvTypes) :
         LET t == data.InvTypes[i]
         IN /\ \E k \in 1..Len(data.InvGroups) : data.InvGroups[k].GroupID = t.GroupID
            /\ t.TypeID \in DOMAIN input.Types
            /\ input.Types[t.TypeID].GroupID = t.GroupID
            /\ t.GroupID \in DOMAIN input.Groups
            /\ input.Groups[t.GroupID].CategoryID = 6
    /\ \A id \in DOMAIN input.Types :
         LET g == input.Types[id].GroupID
         IN (g \in DOMAIN input.Groups /\ input.Groups[g].CategoryID = 6)
            => Cardinality({i \in 1..Len(data.InvTypes) :
                              /\ data.InvTypes[i].TypeID = id
                              /\ data.InvTypes[i].GroupID = g}) = 1
    /\ DistinctKeys(TypeKey(data.InvTypes))

\* a type of a ship group was kept and a type whose group is a drone
\* group, or is missing from the group table, was left out
C7_Witness ==
  /\ Transformed
  /\ Len(data.InvTypes) >= 1
  /\ \E id \in DOMAIN input.Types :
       \/ input.Types[id].GroupID \notin DOMAIN input.Groups
       \/ input.Groups[input.Types[id].GroupID].CategoryID # 6

\* C8: InvGroups holds exactly the input groups of category 6, each once,
\* with its own GroupID and CategoryID
C8_ShipGroupsExactly ==
  Transformed =>
    /\ \A i \in 1..Len(data.InvGroups) :
         LET g == data.InvGroups[i]
         IN /\ g.GroupID \in DOMAIN input.Groups
            /\ g.CategoryID = 6
            /\ input.Groups[g.GroupID].CategoryID = 6
    /\ \A id \in DOMAIN input.Groups :
         input.Groups[id].CategoryID = 6
           => Cardinality({i \in 1..Len(data.InvGroups) :
                             data.InvGroups[i].GroupID = id}) = 1
    /\ DistinctKeys(GroupKey(data.InvGroups))

\* a ship group was kept and a drone group left out
C8_Witness ==
  /\ Transformed
  /\ Len(data.InvGroups) >= 1
  /\ \E id \in DOMAIN input.Groups : input.Groups[id].CategoryID # 6

\* every endpoint of jump j that is in the system table carries the
\* RegionID and ConstellationID of a system with that ID; an endpoint
\* that is not carries zeros
EndpointsEnriched(j, systems) ==
  /\ IF \E k \in 1..Len(systems) : systems[k].SolarSystemID = j.FromSolarSystemID
     THEN \E k \in 1..Len(systems) :
            /\ systems[k].SolarSystemID = j.FromSolarSystemID
            /\ systems[k].RegionID = j.FromRegionID
            /\ systems[k].ConstellationID = j.FromConstellationID
     ELSE j.FromRegionID = 0 /\ j.FromConstellationID = 0
  /\ IF \E k \in 1..Len(systems) : systems[k].SolarSystemID = j.ToSolarSystemID
     THEN \E k \in 1..Len(systems) :
            /\ systems[k].SolarSystemID = j.ToSolarSystemID
            /\ systems[k].RegionID = j.ToRegionID
            /\ systems[k].ConstellationID = j.ToConstellationID
     ELSE j.ToRegionID = 0 /\ j.ToConstellationID = 0

\* the input jumps are one pair A->B, B->A of two different known systems
BidirectionalPair ==
  /\ Len(input.SystemJumps) = 2
  /\ input.SystemJumps[1].FromSolarSystemID # input.SystemJumps[1].ToSolarSystemID
  /\ input.SystemJumps[2].FromSolarSystemID = input.SystemJumps[1].ToSolarSystemID
  /\ input.SystemJumps[2].ToSolarSystemID = input.SystemJumps[1].FromSolarSystemID
  /\ \A i \in 1..2 : \E k \in 1..Len(input.SolarSystems) :
       input.SolarSystems[k].SolarSystemID = input.SystemJumps[i].FromSolarSystemID

\* C9: each output jump carries, for an endpoint found in the system
\* table, the RegionID and ConstellationID of the system with that ID,
\* and a pair A->B, B->A comes out as exactly two enriched records, one
\* per direction
C9_JumpEnrichment ==
  Transformed =>
    /\ \A i \in 1..Len(data.SystemJumps) :
         EndpointsEnriched(data.SystemJumps[i], input.SolarSystems)
    /\ BidirectionalPair =>
         /\ Len(data.SystemJumps) = 2
         /\ \A i \in 1..2 : \E k \in 1..2 :
              JumpKey(data.SystemJumps[k]) = JumpKey(input.SystemJumps[i])
         /\ JumpsStrictlyAscending(data.SystemJumps)

\* a bidirectional pair between systems of different regions and
\* constellations was transformed
C9_Witness ==
  /\ Transformed
  /\ BidirectionalPair
  /\ Len(data.SystemJumps) = 2
  /\ data.SystemJumps[1].FromRegionID # data.SystemJumps[1].ToRegionID
  /\ data.SystemJumps[1].FromConstellationID # data.SystemJumps[1].ToConstellationID
  /\ data.SystemJumps[1].FromRegionID # 0
  /\ data.SystemJumps[1].ToRegionID # 0

\* how many elements of s have the key k
Occurrences(s, k) ==
  Cardinality({i \in 1..Len(s) : JumpKey(s[i]) = k})

\* a system ID is in no row of the system table
Unknown(id) ==
  \A k \in 1..Len(input.SolarSystems) : input.SolarSystems[k].SolarSystemID # id

\* C10: the output jumps are the input jumps, (From, To) pair by pair and
\* as often as in the input: none dropped, added or merged. An endpoint
\* missing from the system table has RegionID and ConstellationID 0 on
\* its side, the other side is enriched, and no error is raised.
C10_JumpsPreserved ==
  Transformed =>
    /\ Len(data.SystemJumps) = Len(input.SystemJumps)
    /\ \A k \in IDs \X IDs :
         Occurrences(data.SystemJumps, k) = Occurrences(input.SystemJumps, k)
    /\ \A i \in 1..Len(data.SystemJumps) :
         LET j == data.SystemJumps[i]
         IN /\ Unknown(j.FromSolarSystemID)
                 => j.FromRegionID = 0 /\ j.FromConstellationID = 0
            /\ Unknown(j.ToSolarSystemID)
                 => j.ToRegionID = 0 /\ j.ToConstellationID = 0
            /\ ~Unknown(j.FromSolarSystemID) => j.FromRegionID # 0
            /\ ~Unknown(j.ToSolarSystemID) => j.ToRegionID # 0
    /\ pc = "validate" => err = ""

\* the same jump was in the input twice, with one endpoint that is not
\* in the system table, and came out twice
C10_Witness ==
  /\ Transformed
  /\ Len(input.SystemJumps) >= 2
  /\ JumpKey(input.SystemJumps[1]) = JumpKey(input.SystemJumps[2])
  /\ Unknown(input.SystemJumps[1].FromSolarSystemID)
  /\ ~Unknown(input.SystemJumps[1].ToSolarSystemID)
  /\ Occurrences(data.SystemJumps, JumpKey(input.SystemJumps[1])) >= 2
  /\ pc = "validate"

\* Validate has returned: its result
Validated == validationResult # <<>>
result == validationResult[1]

\* C3: a run whose validation result holds an Error has returned an
\* error and has called none of WriteAll, writeMetadata and
\* CopyPassthroughFiles; a run that called one of them was validated
\* without Errors
C3_NoOutputAfterErrors ==
  /\ (Validated /\ result.Errors # <<>>)
       => /\ calls = <<>>
          /\ pc = "returned"
          /\ err # ""
  /\ calls # <<>> => (Validated /\ result.Errors = <<>>)

\* a run with an empty required collection has been validated and has
\* returned
C3_Witness ==
  /\ Validated
  /\ Len(result.Errors) >= 1
  /\ pc = "returned"
  /\ err = "validation failed with 1 errors"
  /\ calls = <<>>

\* 1 for an empty sequence, 0 otherwise
Empty(s) == IF Len(s) = 0 THEN 1 ELSE 0

\* C4: the result holds "No solar systems found" iff SolarSystems is
\* empty, "No regions found" iff Regions is empty, "No constellations
\* found" iff Constellations is empty, and nothing else: one Error per
\* empty required collection, none for an empty collection of the others;
\* without solar systems the result is not valid
C4_ErrorsIffRequiredEmpty ==
  Validated =>
    /\ "No solar systems found" \in Range(result.Errors)
         <=> Len(data.Universe.SolarSystems) = 0
    /\ "No regions found" \in Range(result.Errors)
         <=> Len(data.Universe.Regions) = 0
    /\ "No constellations found" \in Range(result.Errors)
         <=> Len(data.Universe.Constellations) = 0
    /\ Len(result.Errors) = Empty(data.Universe.SolarSystems)
                            + Empty(data.Universe.Regions)
                            + Empty(data.Universe.Constellations)
    /\ Len(data.Universe.SolarSystems) = 0 => ~IsValid(result)

\* data without solar systems, without constellations and without any of
\* the other collections, but with regions, was validated: two Errors
C4_Witness ==
  /\ Validated
  /\ Len(data.Universe.SolarSystems) = 0
  /\ Len(data.Universe.Constellations) = 0
  /\ Len(data.Universe.Regions) > 0
  /\ Len(data.InvTypes) = 0
  /\ Len(data.NPCStations) = 0
  /\ result.Errors = <<"No solar systems found", "No constellations found">>

\* the warning about a collection of count elements
WarningText(what, count, minimum) ==
  what \o " count (" \o ToString(count) \o ") is below expected minimum ("
       \o ToString(minimum) \o ")"

Warned(what, s, minimum) ==
  WarningText(what, Len(s), minimum) \in Range(result.Warnings)

\* 1 for a sequence shorter than minimum, 0 otherwise
Short(s, minimum) == IF Len(s) < minimum THEN 1 ELSE 0

\* C5: the result holds the Warning of a collection iff its count is
\* below its minimum (8000 solar systems, 100 regions, 1000
\* constellations, 500 ship types, 30 ship groups, 13000 system jumps,
\* 750 wormhole classes, 40 NPC stations), and no other Warning: a count
\* equal to the minimum gives none, and with all eight counts at their
\* minimum there is neither a Warning nor an Error
C5_WarningsIffBelowMinimum ==
  Validated =>
    /\ Warned("Solar system", data.Universe.SolarSystems, 8000)
         <=> Len(data.Universe.SolarSystems) < 8000
    /\ Warned("Region", data.Universe.Regions, 100)
         <=> Len(data.Universe.Regions) < 100
    /\ Warned("Constellation", data.Universe.Constellations, 1000)
         <=> Len(data.Universe.Constellations) < 1000
    /\ Warned("Ship type", data.InvTypes, 500) <=> Len(data.InvTypes) < 500
    /\ Warned("Ship group", data.InvGroups, 30) <=> Len(data.InvGroups) < 30
    /\ Warned("System jump", data.SystemJumps, 13000)
         <=> Len(data.SystemJumps) < 13000
    /\ Warned("Wormhole class", data.WormholeClasses, 750)
         <=> Len(data.WormholeClasses) < 750
    /\ Warned("NPC station", data.NPCStations, 40) <=> Len(data.NPCStations) < 40
    /\ Len(result.Warnings) =
         Short(data.Universe.SolarSystems, 8000) + Short(data.Universe.Regions, 100)
         + Short(data.Universe.Constellations, 1000) + Short(data.InvTypes, 500)
         + Short(data.InvGroups, 30) + Short(data.SystemJumps, 13000)
         + Short(data.WormholeClasses, 750) + Short(data.NPCStations, 40)
    /\ ( /\ Len(data.Universe.SolarSystems) >= 8000
         /\ Len(data.Universe.Regions) >= 100
         /\ Len(data.Universe.Constellations) >= 1000
         /\ Len(data.InvTypes) >= 500
         /\ Len(data.InvGroups) >= 30
         /\ Len(data.SystemJumps) >= 13000
         /\ Len(data.WormholeClasses) >= 750
         /\ Len(data.NPCStations) >= 40 )
       => (result.Warnings = <<>> /\ result.Errors = <<>>)

\* 12999 system jumps and 40 NPC stations, everything else at its
\* minimum: the only Warning is the one about the jumps
C5_Witness ==
  /\ Validated
  /\ Len(data.SystemJumps) = 12999
  /\ Len(data.NPCStations) = 40
  /\ Len(data.InvTypes) = 500
  /\ Len(data.InvGroups) = 30
  /\ Len(data.WormholeClasses) = 750
  /\ result.Warnings =
       <<"System jump count (12999) is below expected minimum (13000)">>

\* C6: IsValid is true of a validation result iff its Errors are empty,
\* with or without Warnings
C6_IsValidIffNoErrors ==
  Validated => (IsValid(result) <=> result.Errors = <<>>)

\* a result with Warnings and without Errors is valid
C6_Witness ==
  /\ Validated
  /\ result.Warnings # <<>>
  /\ result.Errors = <<>>
  /\ IsValid(result)

\* the smallest and the largest element of a non-empty set of numbers
Min(S) == CHOOSE m \in S : \A n \in S : m <= n
Max(S) == CHOOSE m \in S : \A n \in S : n <= m

\* the input systems tagged with a region, with a constellation
RegionChildren(id) ==
  {k \in 1..Len(input.SolarSystems) : input.SolarSystems[k].RegionID = id}

ConstellationChildren(id) ==
  {k \in 1..Len(input.SolarSystems) : input.SolarSystems[k].ConstellationID = id}

\* the bounds of parent are the extremes of the systems C on every axis
BoundsOf(parent, C) ==
  /\ parent.XMin = Min({input.SolarSystems[k].X : k \in C})
  /\ parent.XMax = Max({input.SolarSystems[k].X : k \in C})
  /\ parent.YMin = Min({input.SolarSystems[k].Y : k \in C})
  /\ parent.YMax = Max({input.SolarSystems[k].Y : k \in C})
  /\ parent.ZMin = Min({input.SolarSystems[k].Z : k \in C})
  /\ parent.ZMax = Max({input.SolarSystems[k].Z : k \in C})

\* C11: every region and every constellation with at least one system
\* tagged with its ID has, on each axis, the minimum and the maximum over
\* exactly those systems as its bounds, whatever bounds it had before;
\* with a single such system minimum and maximum are equal
C11_BoundsAreExtremes ==
  Transformed =>
    /\ \A i \in 1..Len(data.Universe.Regions) :
         LET r == data.Universe.Regions[i]
             C == RegionChildren(r.RegionID)
         IN /\ C # {} => BoundsOf(r, C)
            /\ Cardinality(C) = 1
                 => (r.XMin = r.XMax /\ r.YMin = r.YMax /\ r.ZMin = r.ZMax)
    /\ \A i \in 1..Len(data.Universe.Constellations) :
         LET c == data.Universe.Constellations[i]
             C == ConstellationChildren(c.ConstellationID)
         IN /\ C # {} => BoundsOf(c, C)
            /\ Cardinality(C) = 1
                 => (c.XMin = c.XMax /\ c.YMin = c.YMax /\ c.ZMin = c.ZMax)

\* a region that carried the bounds 5 has two systems at different
\* positions, and so has a constellation: the region's bounds were
\* overwritten by the extremes
C11_Witness ==
  /\ Transformed
  /\ \E i \in 1..Len(data.Universe.Regions) :
       LET r == data.Universe.Regions[i]
       IN /\ Cardinality(RegionChildren(r.RegionID)) = 2
          /\ \E k \in 1..Len(input.Regions) : input.Regions[k].XMin = 5
          /\ r.XMin = -2 /\ r.XMax = 1 /\ r.YMin = 10 /\ r.YMax = 20
          /\ r.ZMin = -300 /\ r.ZMax = 400
  /\ \E i \in 1..Len(data.Universe.Constellations) :
       Cardinality(ConstellationChildren(data.Universe.Constellations[i].ConstellationID)) = 2

\* all six bounds of a region or constellation are 0
ZeroBounds(parent) ==
  /\ parent.XMin = 0 /\ parent.XMax = 0
  /\ parent.YMin = 0 /\ parent.YMax = 0
  /\ parent.ZMin = 0 /\ parent.ZMax = 0

FactionOf(p, h) == IF p = NIL THEN <<>> ELSE <<h[p]>>

\* the input regions with the RegionID id
RegionsWithID(id) ==
  {k \in 1..Len(input.Regions) : input.Regions[k].RegionID = id}

\* the systems of the faction inputs have their positions as IDs, so the
\* output system i is the input system i
\* C13: after Transform a system that had a FactionID keeps its own cell
\* and value; a system that had none has the value of a region with its
\* RegionID if it has any FactionID at all, has one when every region
\* with its RegionID has one, and has none when no region has its
\* RegionID or none of them has a FactionID; every region keeps its
\* FactionID and the value behind it
C13_FactionInheritance ==
  (Transformed /\ pc = "validate") =>
    /\ \A i \in 1..Len(data.Universe.SolarSystems) :
         LET sys == data.Universe.SolarSystems[i]
             was == input.SolarSystems[sys.SolarSystemID]
             Rs == RegionsWithID(sys.RegionID)
             withFaction == {k \in Rs : input.Regions[k].FactionID # NIL}
         IN /\ was.FactionID # NIL
                 => (sys.FactionID = was.FactionID /\ heap[sys.FactionID] = 20 + sys.SolarSystemID)
            /\ (was.FactionID = NIL /\ sys.FactionID # NIL)
                 => \E k \in withFaction : heap[sys.FactionID] = 10 + k
            /\ (was.FactionID = NIL /\ withFaction = {}) => sys.FactionID = NIL
            /\ (was.FactionID = NIL /\ Rs # {} /\ withFaction = Rs) => sys.FactionID # NIL
    /\ \A i \in 1..Len(data.Universe.Regions) :
         \E k \in 1..Len(input.Regions) :
           /\ input.Regions[k].RegionID = data.Universe.Regions[i].RegionID
           /\ input.Regions[k].RegionName = data.Universe.Regions[i].RegionName
           /\ input.Regions[k].FactionID = data.Universe.Regions[i].FactionID
           /\ FactionOf(data.Universe.Regions[i].FactionID, heap)
                = (IF input.Regions[k].FactionID = NIL THEN <<>> ELSE <<10 + k>>)

\* one system inherited from its region, one kept its own FactionID, and
\* one is in a region without FactionID or in no region of the input
C13_Witness ==
  /\ Transformed
  /\ pc = "validate"
  /\ Len(data.Universe.SolarSystems) >= 2
  /\ \E i, j \in 1..Len(data.Universe.SolarSystems) :
       /\ input.SolarSystems[i].FactionID = NIL
       /\ data.Universe.SolarSystems[i].FactionID # NIL
       /\ heap[data.Universe.SolarSystems[i].FactionID] = 11
       /\ input.SolarSystems[j].FactionID # NIL
       /\ data.Universe.SolarSystems[j].RegionID = data.Universe.SolarSystems[i].RegionID
       /\ heap[data.Universe.SolarSystems[j].FactionID] = 20 + j

\* system i of the result has a FactionID it got from its region
Inherited(i) ==
  /\ input.SolarSystems[i].FactionID = NIL
  /\ data.Universe.SolarSystems[i].FactionID # NIL

\* C14: a write through the inherited FactionID of one system of the
\* result changes the value behind the FactionID of no other system and
\* of no region
C14_NoAliasing ==
  [][(pc = "validate" /\ pc' = "written") =>
       \A i \in 1..Len(data.Universe.SolarSystems) :
         (/\ Inherited(i)
          /\ heap'[data.Universe.SolarSystems[i].FactionID]
               # heap[data.Universe.SolarSystems[i].FactionID])
         => /\ \A j \in 1..Len(data.Universe.SolarSystems) :
                 (j # i /\ data.Universe.SolarSystems[j].FactionID # NIL)
                   => heap'[data.Universe.SolarSystems[j].FactionID]
                        = heap[data.Universe.SolarSystems[j].FactionID]
            /\ \A k \in 1..Len(data.Universe.Regions) :
                 data.Universe.Regions[k].FactionID # NIL
                   => heap'[data.Universe.Regions[k].FactionID]
                        = heap[data.Universe.Regions[k].FactionID]]_vars

\* two systems inherited from the same region; 99 was written through
\* the FactionID of the first, the second and the region still hold the
\* region's value
C14_Witness ==
  /\ pc = "written"
  /\ Len(data.Universe.SolarSystems) >= 2
  /\ Len(data.Universe.Regions) = 1
  /\ Inherited(1)
  /\ Inherited(2)
  /\ heap[data.Universe.SolarSystems[1].FactionID] = 99
  /\ heap[data.Universe.SolarSystems[2].FactionID] = 11
  /\ heap[data.Universe.Regions[1].FactionID] = 11

\* C15: after Transform every solar system of the result has the Security
\* of the input system with the same SolarSystemID, unrounded
C15_SecurityIsRaw ==
  Transformed =>
    \A i \in 1..Len(data.Universe.SolarSystems) :
      \A k \in 1..Len(input.SolarSystems) :
        input.SolarSystems[k].SolarSystemID
            = data.Universe.SolarSystems[i].SolarSystemID
          => data.Universe.SolarSystems[i].Security = input.SolarSystems[k].Security

\* Transform has reordered two systems, one with the raw value 0.047 and
\* one with 0.9459; the display value of each differs from the raw one
C15_Witness ==
  /\ Transformed
  /\ Len(input.SolarSystems) = 2
  /\ input.SolarSystems[1].Security = 470
  /\ input.SolarSystems[2].Security = 9459
  /\ data.Universe.SolarSystems[1].SolarSystemID = input.SolarSystems[2].SolarSystemID
  /\ data.Universe.SolarSystems[1].Security = 9459
  /\ data.Universe.SolarSystems[2].Security = 470
  /\ GetTrueSecurity(470) # 470
  /\ GetTrueSecurity(9459) # 9459

\* GetTrueSecurity has been applied to the raw value, and to its result
Classified == Len(trueSecurity) >= 2
ClassifiedTwice == Len(trueSecurity) >= 3
raw == trueSecurity[1]

\* the reference rounding in exact decimal arithmetic, on ten-thousandths:
\* 0.1 inside (0, 0.05); otherwise t is s cut to two decimals, o is t cut to
\* one decimal, and the result is o when |t - o| < 0.05 and the next tenth
\* away from zero otherwise
ReferenceRounding(s) ==
  IF 0 < s /\ s < 500
  THEN 1000
  ELSE LET sign == IF s < 0 THEN -1 ELSE 1
           t == sign * (Abs(s) - (Abs(s) % 100))
           o == sign * (Abs(t) - (Abs(t) % 1000))
       IN IF Abs(t - o) < 500 THEN o ELSE o + sign * 1000

\* C16: GetTrueSecurity(raw) is the reference rounding of raw, for every
\* raw value; in particular 0.047 -> 0.1, 0.05 -> 0.1, 0.9459 -> 0.9,
\* 0.95 -> 1.0, -0.45 -> -0.5, -0.449 -> -0.4, 0.0 -> 0.0, -0.99 -> -1.0
C16_EqualsReference ==
  Classified =>
    /\ trueSecurity[2] = ReferenceRounding(raw)
    /\ raw = 470 => trueSecurity[2] = 1000
    /\ raw = 500 => trueSecurity[2] = 1000
    /\ raw = 9459 => trueSecurity[2] = 9000
    /\ raw = 9500 => trueSecurity[2] = 10000
    /\ raw = -4500 => trueSecurity[2] = -5000
    /\ raw = -4490 => trueSecurity[2] = -4000
    /\ raw = 0 => trueSecurity[2] = 0
    /\ raw = -9900 => trueSecurity[2] = -10000

\* GetTrueSecurity(-1.15) has returned -1.1; the reference rounding of
\* -1.15 is -1.2
C16_Witness ==
  /\ Classified
  /\ raw = -11500
  /\ trueSecurity[2] = -11000
  /\ ReferenceRounding(raw) = -12000

\* C17: for a raw value above 0 GetTrueSecurity returns at least 0.1, and
\* it returns 0.0 only for a raw value that is not positive
C17_PositiveNeverZero ==
  Classified =>
    /\ raw > 0 => trueSecurity[2] >= 1000
    /\ trueSecurity[2] = 0 => raw <= 0

\* both cases: 0.0001 has become 0.1, or a raw value that is not positive
\* has become 0.0
C17_Witness ==
  /\ Classified
  /\ \/ raw = 1 /\ trueSecurity[2] = 1000
     \/ raw = -499 /\ trueSecurity[2] = 0

\* C18: applying GetTrueSecurity to its own result gives the result
\* again, and a raw value that is a multiple of 0.1 is returned unchanged
C18_Idempotent ==
  /\ ClassifiedTwice => trueSecurity[3] = trueSecurity[2]
  /\ (Classified /\ raw % 1000 = 0) => trueSecurity[2] = raw

\* 0.9459 has become 0.9 and 0.9 has stayed 0.9
C18_Witness ==
  /\ ClassifiedTwice
  /\ raw = 9459
  /\ trueSecurity[2] = 9000
  /\ trueSecurity[3] = 9000

\* C19: Transform returns to every ParseResult a ConvertedData with a
\* Universe and no error, also when all collections are empty or jumps and
\* stations name unknown IDs; the missing solar systems are an Error of
\* the Validate that follows
C19_TransformAlwaysReturns ==
  [][/\ pc = "transform"
          => /\ pc' = "validate"
             /\ err' = ""
             /\ convertedData' # <<>>
             /\ "Universe" \in DOMAIN convertedData'[1]
     /\ (pc = "validate" /\ validationResult' # <<>> /\ input.SolarSystems = <<>>)
          => "No solar systems found" \in Range(validationResult'[1].Errors)]_vars

\* Transform has returned from a ParseResult whose collections are all
\* empty
C19_Witness ==
  /\ pc = "validate"
  /\ Transformed
  /\ err = ""
  /\ input = EmptyParseResult
  /\ data.Universe.SolarSystems = <<>>
  /\ data.Universe.Regions = <<>>
  /\ data.SystemJumps = <<>>
  /\ data.NPCStations = <<>>

\* the type id / the group id of the input passes the ship filter
IsShipGroup(id) ==
  /\ id \in DOMAIN input.Groups
  /\ input.Groups[id].CategoryID = ShipCategoryID
IsShipType(id) == IsShipGroup(input.Types[id].GroupID)

\* C20: a type or group that passes the ship filter and has no "en" name
\* is in the output of Transform with the name "", and Transform has
\* returned no error
C20_MissingNameKeepsRecord ==
  Transformed =>
    /\ \A id \in DOMAIN input.Types :
         (IsShipType(id) /\ "en" \notin DOMAIN input.Types[id].Name)
           => \E i \in 1..Len(data.InvTypes) :
                /\ data.InvTypes[i].TypeID = id
                /\ data.InvTypes[i].TypeName = ""
    /\ \A id \in DOMAIN input.Groups :
         (IsShipGroup(id) /\ "en" \notin DOMAIN input.Groups[id].Name)
           => \E i \in 1..Len(data.InvGroups) :
                /\ data.InvGroups[i].GroupID = id
                /\ data.InvGroups[i].GroupName = ""
    /\ pc = "validate" => err = ""

\* a ship group with only a "de" name and two of its types, one named in
\* "en" and one with only a "de" name: all three are in the output, the
\* two without "en" under the name ""
C20_Witness ==
  /\ Transformed
  /\ pc = "validate"
  /\ 1 \in DOMAIN input.Groups
  /\ "en" \notin DOMAIN input.Groups[1].Name
  /\ "de" \in DOMAIN input.Groups[1].Name
  /\ DOMAIN input.Types = {1, 2}
  /\ "en" \in DOMAIN input.Types[1].Name
  /\ "de" \in DOMAIN input.Types[2].Name
  /\ Len(data.InvTypes) = 2
  /\ data.InvTypes[1].TypeName = "type"
  /\ data.InvTypes[2].TypeID = 2
  /\ data.InvTypes[2].TypeName = ""
  /\ \E i \in 1..Len(data.InvGroups) :
       data.InvGroups[i].GroupID = 1 /\ data.InvGroups[i].GroupName = ""

\* the positions of the output stations with the StationID id
StationsWithID(id) ==
  {i \in 1..Len(data.NPCStations) : data.NPCStations[i].StationID = id}

\* the "en" name of the corporation id of the input, "" without one
OwnerNameOf(id) ==
  IF id \notin DOMAIN input.NPCCorporations THEN ""
  ELSE IF "en" \notin DOMAIN input.NPCCorporations[id].Name THEN ""
  ELSE input.NPCCorporations[id].Name["en"]

\* C21: the output of Transform has one NPCStation per station of the
\* input, with its StationID, SolarSystemID, OwnerID and TypeID; OwnerName
\* is the "en" name of the owner when the owner is in the corporation
\* table and "" otherwise; a station without a known owner is kept and
\* Transform returns no error
C21_OneStationPerInput ==
  Transformed =>
    /\ Len(data.NPCStations) = Cardinality(DOMAIN input.NPCStations)
    /\ \A id \in DOMAIN input.NPCStations :
         /\ Cardinality(StationsWithID(id)) = 1
         /\ \A i \in StationsWithID(id) :
              /\ data.NPCStations[i].SolarSystemID = input.NPCStations[id].SolarSystemID
              /\ data.NPCStations[i].OwnerID = input.NPCStations[id].OwnerID
              /\ data.NPCStations[i].TypeID = input.NPCStations[id].TypeID
              /\ data.NPCStations[i].OwnerName = OwnerNameOf(input.NPCStations[id].OwnerID)
    /\ \A i \in 1..Len(data.NPCStations) :
         data.NPCStations[i].StationID \in DOMAIN input.NPCStations
    /\ pc = "validate" => err = ""

\* two stations, the owner of the first in the corporation table under
\* the name "corp", the owner of the second not in it
C21_Witness ==
  /\ Transformed
  /\ pc = "validate"
  /\ DOMAIN input.NPCStations = {1, 2}
  /\ input.NPCStations[1].OwnerID \in DOMAIN input.NPCCorporations
  /\ input.NPCStations[2].OwnerID \notin DOMAIN input.NPCCorporations
  /\ Len(data.NPCStations) = 2
  /\ data.NPCStations[1].OwnerName = "corp"
  /\ data.NPCStations[2].OwnerName = ""
  /\ data.NPCStations[2].OwnerID = input.NPCStations[2].OwnerID

\* ParseStargates has run: the gates it read and the jumps it returned
StargatesParsed == rawStargates # <<>> /\ parseResult # <<>>
stargates == rawStargates[1]
GatePairs ==
  {<<stargates[id].SolarSystemID, stargates[id].Destination.SolarSystemID>> :
     id \in DOMAIN stargates}

\* C22: the jumps of ParseStargates are the distinct (from, to) pairs of
\* the gates with two non-zero systems, each once, direction kept, sorted
\* by (From, To)
C22_OneJumpPerPair ==
  StargatesParsed =>
    /\ Range(JumpKeys(input.SystemJumps))
         = {p \in GatePairs : p[1] # 0 /\ p[2] # 0}
    /\ DistinctKeys(JumpKeys(input.SystemJumps))
    /\ JumpsStrictlyAscending(input.SystemJumps)
    /\ \A p \in GatePairs :
         (p[1] # 0 /\ p[2] # 0 /\ p[1] # p[2] /\ <<p[2], p[1]>> \in GatePairs)
           => /\ p \in Range(JumpKeys(input.SystemJumps))
              /\ <<p[2], p[1]>> \in Range(JumpKeys(input.SystemJumps))

\* the gates 2 -> 1 and 1 -> 2 have given the two jumps 1 -> 2 and 2 -> 1
C22_Witness ==
  /\ StargatesParsed
  /\ DOMAIN stargates = {1, 2}
  /\ stargates[1] = SDEMapStargate(2, 1)
  /\ stargates[2] = SDEMapStargate(1, 2)
  /\ JumpKeys(input.SystemJumps) = << <<1, 2>>, <<2, 1>> >>

\* the cells the FactionIDs of a ParseResult refer to
FactionCellsOf(pr) ==
  ({pr.Regions[i].FactionID : i \in 1..Len(pr.Regions)}
     \cup {pr.SolarSystems[i].FactionID : i \in 1..Len(pr.SolarSystems)})
    \ {NIL}

UpdateChecked ==
  /\ pc = "checked"
  /\ versionCalls[Len(versionCalls)].err = ""
check == versionCalls[Len(versionCalls)]
StoredBefore == Len(versionCalls) = 2
storedVersion == versionCalls[1].version

EmittedTypes == {data.InvTypes[i].TypeID : i \in 1..Len(data.InvTypes)}
EmittedGroups == {data.InvGroups[i].GroupID : i \in 1..Len(data.InvGroups)}

C27_PublishedIgnored ==
  Transformed =>
    /\ \A id \in DOMAIN input.Groups :
         (input.Groups[id].CategoryID = 6 /\ ~input.Groups[id].Published)
           => id \in EmittedGroups
    /\ \A id \in DOMAIN input.Types :
         (IsShipType(id) /\ ~input.Types[id].Published)
           => \E i \in 1..Len(data.InvTypes) :
                /\ data.InvTypes[i].TypeID = id
                /\ ~data.InvTypes[i].Published

\* an unpublished ship group with an unpublished and a published type:
\* the group and both types are in the output
C27_Witness ==
  /\ Transformed
  /\ 1 \in DOMAIN input.Groups
  /\ ~input.Groups[1].Published
  /\ DOMAIN input.Types = {1, 2}
  /\ ~input.Types[1].Published
  /\ input.Types[2].Published
  /\ 1 \in EmittedGroups
  /\ EmittedTypes = {1, 2}
  /\ ~data.InvTypes[1].Published

\* the steps of the core
CoreSteps == {"parse", "transform", "validate", "write"}

\* the step of the core at pc is made in full, or fails on its own
CoreStepMade ==
  \/ /\ pc = "parse"
     /\ \/ pc' = "transform" /\ parseResult' # <<>>
        \/ pc' = "returned" /\ err' = "failed to parse SDE"
  \/ /\ pc = "transform"
     /\ pc' = "validate"
     /\ convertedData' # <<>>
  \/ /\ pc = "validate"
     /\ validationResult' = <<Validate(convertedData[1])>>
     /\ \/ pc' = "write" /\ Len(validationResult'[1].Errors) = 0
        \/ pc' = "returned" /\ Len(validationResult'[1].Errors) > 0
  \/ /\ pc = "write"
     /\ calls' = Append(calls, "WriteAll")
     /\ \/ pc' = "metadata"
        \/ pc' = "returned" /\ err' = "failed to write output"

\* C26: once step 1 is passed, a cancel() does not abort or skip ParseAll,
\* Transform, Validate or WriteAll: each is made in full whether or not the
\* context is done; only the version check and the download fail on a
\* cancelled context, before the core has started
C26_InterruptNeverStopsCore ==
  [][/\ (pc \in CoreSteps /\ cancelledAt' # <<>>) => (pc' = pc \/ CoreStepMade)
     /\ (err' # err /\ err' \in {ContextCanceled, "failed to download SDE: " \o ContextCanceled})
          => (pc = "fetch" /\ parseResult = <<>> /\ cancelledAt # <<>>)
     /\ (versionCalls' # versionCalls /\ pc = "check"
           /\ versionCalls'[Len(versionCalls')].err = ContextCanceled)
          => cancelledAt # <<>>]_vars

\* a run with --download whose context was cancelled during Transform and
\* which wrote its output and returned nil
C26_Witness ==
  /\ cfg.DownloadSDE
  /\ cancelledAt = <<"transform">>
  /\ pc = "returned"
  /\ err = ""
  /\ convertedData # <<>>
  /\ validationResult # <<>>
  /\ \E i \in 1..Len(calls) : calls[i] = "WriteAll"

\* the version check returned version info, the stored version is the
\* latest and the SDE directory exists
UpToDate ==
  /\ versionInfo # <<>>
  /\ GetStoredVersion(versionFile) = versionInfo[1]
  /\ sdeDir # <<>>

\* C28: with --download the version file is written only once
\* DownloadAndExtract has succeeded and the SDE is at its persistent path,
\* and only with version info; a failed download or move returns an error
\* and leaves the version file as it was; the old SDE directory is removed
\* only after a successful download; with the stored version equal to the
\* latest and the SDE directory there, step 1 goes on without a download
C28_VersionStoredAfterMove ==
  [][/\ versionFile' # versionFile
          => (pc = "store" /\ sdeDir = <<"new">> /\ downloadedPath = <<>>
                /\ versionInfo # <<>>)
     /\ (pc \in {"fetch", "move"} /\ pc' = "returned")
          => (err' # "" /\ versionFile' = versionFile)
     /\ (sdeDir # <<>> /\ sdeDir' = <<>>)
          => (pc = "remove" /\ downloadedPath = <<"new">>)
     /\ pc' = "fetch" => (pc \in {"stat", "fetch"} /\ ~UpToDate)
     /\ (pc = "stat" /\ UpToDate) => pc' \in {"stat", "structure"}]_vars

\* a run that replaced the SDE of stored version 1 by the downloaded one
\* and then stored version 2
C28_Witness ==
  /\ cfg.DownloadSDE
  /\ pc = "structure"
  /\ sdeDir = <<"new">>
  /\ versionFile = <<VersionFileContent(<<"2">>)>>
  /\ Len(versionCalls) = 2
  /\ versionCalls[1] = NeedsUpdateResult(<<VersionFileContent(<<"1">>)>>, <<"2">>)
  /\ versionCalls[2] = [op |-> "StoreVersion", version |-> <<"2">>]

\* GetTrueSecurity and RoundSecurity have both been applied to the raw value
Compared == Classified /\ roundedSecurity # <<>>

\* C29: GetTrueSecurity and RoundSecurity agree on every raw value outside
\* (0, 0.05); inside it they differ, GetTrueSecurity giving 0.1 and
\* RoundSecurity 0.0
C29_AgreeOutsideInterval ==
  Compared =>
    IF 0 < raw /\ raw < 500
    THEN trueSecurity[2] = 1000 /\ roundedSecurity[1] = 0
    ELSE trueSecurity[2] = roundedSecurity[1]

\* on 1.15, outside the interval, GetTrueSecurity has returned 1.1 and
\* RoundSecurity 1.2
C29_Witness ==
  /\ Compared
  /\ raw = 11500
  /\ trueSecurity[2] = 11000
  /\ roundedSecurity[1] = 12000

\* the box of inner lies within the box of outer
Contains(outer, inner) ==
  /\ outer.XMin <= inner.XMin /\ inner.XMin <= inner.XMax /\ inner.XMax <= outer.XMax
  /\ outer.YMin <= inner.YMin /\ inner.YMin <= inner.YMax /\ inner.YMax <= outer.YMax
  /\ outer.ZMin <= inner.ZMin /\ inner.ZMin <= inner.ZMax /\ inner.ZMax <= outer.ZMax

\* C30: after Transform, a constellation with at least one system, all of
\* whose systems carry the RegionID of one region of the output, has its
\* bounding box inside that region's box on every axis
C30_RegionContainsConstellation ==
  Transformed =>
    \A i \in 1..Len(data.Universe.Constellations), j \in 1..Len(data.Universe.Regions) :
      LET c == data.Universe.Constellations[i]
          r == data.Universe.Regions[j]
          C == ConstellationChildren(c.ConstellationID)
      IN (C # {} /\ \A k \in C : input.SolarSystems[k].RegionID = r.RegionID)
           => Contains(r, c)

\* region 1 has systems at both positions, one in constellation 1 and one
\* in constellation 2: the box of constellation 1 is a point strictly
\* inside the box of region 1
C30_Witness ==
  /\ Transformed
  /\ Len(input.SolarSystems) = 2
  /\ \A k \in 1..2 : input.SolarSystems[k].RegionID = 1
  /\ input.SolarSystems[1].ConstellationID = 1
  /\ input.SolarSystems[2].ConstellationID = 2
  /\ input.SolarSystems[1].X = 1
  /\ input.SolarSystems[2].X = -2
  /\ \E i \in 1..Len(data.Universe.Constellations), j \in 1..Len(data.Universe.Regions) :
       LET c == data.Universe.Constellations[i]
           r == data.Universe.Regions[j]
       IN /\ c.ConstellationID = 1 /\ r.RegionID = 1
          /\ c.XMin = 1 /\ c.XMax = 1
          /\ r.XMin = -2 /\ r.XMax = 1
          /\ r.ZMin = -300 /\ c.ZMin = -300 /\ c.ZMax = -300 /\ r.ZMax = 400

====
